---- MODULE Spec2Model ----
(***************************************************************************)
(* A model of the mpyr rigging toolkit: the Rig build (rig/rigbase.py),    *)
(* the Limb lifecycle and wiring operators (rig/limb/limbBase.py,          *)
(* rig/limb/generic.py, rig/limb/spine.py), the FK/IK chain builder, the   *)
(* pin blend (lib/cns.py) and the IK/FK snap tools (lib/rig.py).           *)
(*                                                                         *)
(* Scene nodes are numbers: 0 is Python's None, 1..3 are joint names,      *)
(* Ctrl(l,i) is the i-th control made by limb l.  Helpers whose bodies are *)
(* not part of the sources at hand (mpAttr.visOveride, the name constants  *)
(* CACHEATTR and ALLCTRLSET) touch no state that is modelled here and are  *)
(* taken to return normally.                                               *)
(***************************************************************************)
EXTENDS Integers, Sequences, FiniteSets, TLC

(* ------------------------------ bounds --------------------------------- *)
\* limb objects a build script instantiates besides the world offset
MaxLimbs == 2
\* uses of the wiring operators '>' and '>>' in one session
MaxWires == 1
\* joints in the chain given to addFKIKChain
MaxJoints == 6
\* orientations are whole angles about one axis, 0..MaxAngle
MaxAngle == 3
\* the blend attribute moves in steps of 1/BlendSteps
BlendSteps == 4
\* calls of the snap tools in one session
MaxSnaps == 2
\* limb objects of a script that names nodes, and its naming steps
MaxNameLimbs == 2
MaxNameSteps == 4
\* controls one build() makes
MaxCtrls == 2
\* coordinates of the points given to getAimVector: 0..MaxCoord along x and
\* one far value, which makes chains that are nearly but not fully extended
MaxCoord == 2
Far == 16

VARIABLES
    rigPc,      \* where the session is: init, begin, begun, build, done, raised, cleared
    rigNodes,   \* rig root nodes in the scene
    skeleton,   \* the skeleton file has been imported
    limbs,      \* Rig.limbs
    limb,       \* the Limb objects, by id
    scene,      \* ids of the limbs whose nodes are in the scene
    creating,   \* the limb addLimb is building, or -1
    createPc,   \* the next statement of Limb.create for that limb
    cns,        \* the parent constraints on pins: driver, pin, and who made it
    picks,      \* pick-walk edges <<child ctrl, parent ctrl>>
    err,        \* the exception that ended the script, or "none"
    calls       \* the uses of the wiring operators '>' and '>>' so far

rigVars == <<rigPc, rigNodes, skeleton, limbs, limb, scene, creating, createPc,
             cns, picks, err, calls>>

\* one call of Limb.addFKChain, addIKChain or addFKIKChain
VARIABLES
    chainPc,     \* the statement the call is at: call, ik, lock, done, raised
    builder,     \* the method build() called
    jointCount,  \* the joints of the chain, from startJoint to endJoint
    bent,        \* the chain is not straight: getAimVector can place the aim
    parentArg,   \* the parent argument of addFKChain (localParent)
    chainCtrls,  \* limb.ctrls
    axes,        \* the list `axes` of the axis-locking loop
    locked,      \* the rotate axes locked on each FK control
    mid,         \* the index into fkCtrls the loop is at
    returned,    \* the list the call returned
    chainErr,    \* the exception that ended the call, or "none"
    FKIK,        \* the FKIK attribute on the limb node shape
    dotsIndex,   \* dots.index(max(dots)) of each interior FK control, or -1
    handle,      \* the IK handle has been made
    ctrlParent,  \* the node each control's zero is parented under
    pickParents, \* pick-walk edges <<ctrl, pick parent>>
    snapParents, \* snap edges <<ctrl, snap source>>
    lockedT,     \* the controls whose translate is locked and hidden
    pointCns     \* point constraints <<ctrl, joint>>

chainVars == <<chainPc, builder, jointCount, bent, parentArg, chainCtrls, axes,
               locked, mid, returned, chainErr, FKIK, dotsIndex, handle, ctrlParent,
               pickParents, snapParents, lockedT, pointCns>>

\* a limb built with Limb.addPinBlend
VARIABLES
    pinPc,            \* new, built
    jointRot,         \* world orientation of the start joint
    pinRot,           \* world orientation of pinParent and of pinWorld
    localWorldBlend,  \* the blend attribute, in steps of 1/BlendSteps
    offset            \* the offset the orient constraint keeps (mo=True)

pinVars == <<pinPc, jointRot, pinRot, localWorldBlend, offset>>

\* the IK/FK snap tools on one limb
VARIABLES
    topo,        \* how the limb was built: "chain" (FKIKChain) or "leg" (LegFKIK)
    dictOrder,   \* the order in which Python iterates the results dict
    loc,         \* the local transform of every control
    fkik,        \* the FKIK attribute of the limb: 0 is FK, 1 is IK
    snapPc,      \* idle, apply, setAttr
    snapDir,     \* the tool that is running: "IKFK" (snapIKFK) or "FKIK" (snapFKIK)
    results,     \* the dict `results` of the running call
    pass,        \* the turn of `for i in range(4)` the call is in
    pos,         \* the place in the dict the call is at
    applied,     \* controls reset or moved by the running call so far
    snaps,       \* the calls that returned: the tool and the transforms it left
    straight,    \* the FK controls stand in one line (chain fully extended)
    resetCalls,  \* the controls the running call ran resetCtrl on
    snapErr      \* the exception the last call raised, or "none"

snapVars == <<topo, dictOrder, loc, fkik, snapPc, snapDir, results, pass, pos,
              applied, snaps, straight, resetCalls, snapErr>>

\* the Name objects of the limbs of a script and the names in the scene
VARIABLES
    names,       \* limb.name of each limb object
    limbNodeOf,  \* limb.limbNode of each limb object, '' for None
    nodes,       \* the names of the nodes in the scene
    created,     \* the names given to nodes made with n=self.name.get()
    nameErr,     \* the exception the last step raised, or "none"
    nameOp,      \* the last step
    nameSteps,   \* steps so far
    translateOf  \* limb.translate of each limb object (FKOffset: default True)

nameVars == <<names, limbNodeOf, nodes, created, nameErr, nameOp, nameSteps,
              translateOf>>

\* the controls of one limb while its build() makes and deletes them, and
\* Limb.end after it
VARIABLES
    regPc,       \* off, build, set, ended, raised
    regCtrls,    \* limb.ctrls
    regMade,     \* the controls addCtrl made, in the order it made them
    regDeleted,  \* the controls deleteCtrl was called on
    regScene,    \* the controls that are in the scene
    regZeros,    \* the controls whose zero null is in the scene
    regParent,   \* the node the zero of each control is under
    regDrives,   \* the joint each control drives, or None
    regEndJoint, \* limb.endJoint (limb.startJoint is Root)
    regStart,    \* limb.startCtrl
    regEnd,      \* limb.endCtrl
    regSet,      \* the values build() gave startCtrl and endCtrl itself
    regErr       \* the exception that ended the build, or "none"

regVars == <<regPc, regCtrls, regMade, regDeleted, regScene, regZeros, regParent,
             regDrives, regEndJoint, regStart, regEnd, regSet, regErr>>

\* one call of mpRig.getAimVector(start, mid, end)
VARIABLES
    aimPc,     \* off, call, returned, raised
    aimStart,  \* the three points, as <<x, y, z>>
    aimMid,
    aimEnd,
    aimOut,    \* what the call returned
    aimErr     \* the exception it raised, or "none"

aimVars == <<aimPc, aimStart, aimMid, aimEnd, aimOut, aimErr>>

nonRigVars == <<chainVars, pinVars, snapVars, nameVars, regVars, aimVars>>
nonChainVars == <<rigVars, pinVars, snapVars, nameVars, regVars, aimVars>>
nonPinVars == <<rigVars, chainVars, snapVars, nameVars, regVars, aimVars>>
nonSnapVars == <<rigVars, chainVars, pinVars, nameVars, regVars, aimVars>>
nonNameVars == <<rigVars, chainVars, pinVars, snapVars, regVars, aimVars>>
nonRegVars == <<rigVars, chainVars, pinVars, snapVars, nameVars, aimVars>>
nonAimVars == <<rigVars, chainVars, pinVars, snapVars, nameVars, regVars>>
vars == <<rigVars, chainVars, pinVars, snapVars, nameVars, regVars, aimVars>>

(* ------------------------------ the scene ------------------------------ *)
None == 0
\* the skeleton of examples/simpleChain.py: Root is the parent of Joint1
Root == 1
Joint1 == 2
\* a joint name that is in no scene
Ghost == Joint1 + 1
Joints == {Root, Joint1}

WorldLimb == 0
LimbIds == 0..MaxLimbs
Ctrl(l, i) == 10 * (l + 1) + i

\* mpJoint.getJointList: the chain from startJoint down to endJoint; the
\* start must be among the parents of the end, else RuntimeError (<< >> here)
getJointList(startJoint, endJoint) ==
    IF startJoint = Root /\ endJoint = Joint1 THEN <<Root, Joint1>> ELSE << >>

\* the limb classes a script may instantiate, with the joints it sets on them
LimbConfigs ==
    << [kind |-> "Limb",          startJoint |-> None,   endJoint |-> None],
       [kind |-> "FKOffset",      startJoint |-> Root,   endJoint |-> None],
       [kind |-> "FKOffset",      startJoint |-> Joint1, endJoint |-> Joint1],
       [kind |-> "FKOffset",      startJoint |-> None,   endJoint |-> None],
       [kind |-> "FKOffsetBlend", startJoint |-> Joint1, endJoint |-> None],
       [kind |-> "SpineFK",       startJoint |-> Root,   endJoint |-> Joint1],
       [kind |-> "SpineFK",       startJoint |-> Joint1, endJoint |-> Root] >>

\* Limb.__init__, and the joints the script sets on the object
NewLimb(cfg) ==
    [ kind |-> cfg.kind, startJoint |-> cfg.startJoint, endJoint |-> cfg.endJoint,
      rig |-> FALSE, limbNode |-> FALSE, noXform |-> FALSE,
      pinParent |-> FALSE, pinWorld |-> FALSE, pinBlend |-> FALSE,
      ctrls |-> 0, startCtrl |-> None, endCtrl |-> None, hidden |-> FALSE,
      phases |-> << >>, raised |-> "none" ]

WorldOffsetCfg == [kind |-> "WorldOffset", startJoint |-> None, endJoint |-> None]

RigInit ==
    /\ rigPc = "init"
    /\ rigNodes = 0
    /\ skeleton = FALSE
    /\ limbs = << >>
    /\ \E cfg \in [LimbIds \ {WorldLimb} -> 1..Len(LimbConfigs)] :
          /\ \A i, j \in LimbIds \ {WorldLimb} : i < j => cfg[i] <= cfg[j]
          /\ limb = [l \in LimbIds |-> IF l = WorldLimb THEN NewLimb(WorldOffsetCfg)
                                       ELSE NewLimb(LimbConfigs[cfg[l]])]
    /\ scene = {}
    /\ creating = -1
    /\ createPc = "idle"
    /\ cns = {}
    /\ picks = {}
    /\ err = "none"
    /\ calls = << >>

\* cmds.objExists on a node name
objExists(n) ==
    \/ n \in Joints /\ skeleton
    \/ \E l \in scene : \E i \in 1..limb[l].ctrls : n = Ctrl(l, i)

\* the test `not joint or not cmds.objExists(joint)` of the begin() overrides
validJoint(j) == j # None /\ objExists(j)

\* the exception that unwinds the running script: nothing in the library
\* catches it, so it leaves addLimb, build() and create()
Raise(e) ==
    /\ err' = e
    /\ rigPc' = "raised"
    /\ creating' = -1
    /\ createPc' = "idle"

(* --------------------------- Limb lifecycle ---------------------------- *)
\* Limb.create: begin(), build(), end() in program order, then addLimb appends
NextStatementSkipBuild(pc) ==
    CASE pc = "begin" -> "end"
      [] pc = "end"   -> "append"
      [] OTHER        -> "idle"

NextStatement(pc) ==
    CASE pc = "begin" -> "build"
      [] pc = "build" -> "end"
      [] pc = "end"   -> "append"
      [] OTHER        -> "idle"

\* the sanity checks the begin() overrides run after Limb.begin
beginCheck(lb) ==
    CASE lb.kind \in {"FKOffset", "FKOffsetBlend"} ->
            IF validJoint(lb.startJoint) THEN "ok" ELSE "RuntimeError"
      [] lb.kind = "SpineFK" ->
            IF validJoint(lb.startJoint) /\ validJoint(lb.endJoint)
            THEN "ok" ELSE "RuntimeError"
      [] OTHER -> "ok"

\* Limb.begin: getLimbNode makes limbNode if it is not there, then noXform
LimbBaseBegin(lb) == [lb EXCEPT !.limbNode = TRUE, !.noXform = TRUE]

\* Rig.begin up to its call of addLimb(WorldOffset()); addLimb sets limb.rig
RigBegin ==
    /\ rigPc = "init"
    /\ rigPc' = "begin"
    /\ rigNodes' = rigNodes + 1
    /\ limb' = [limb EXCEPT ![WorldLimb].rig = TRUE]
    /\ creating' = WorldLimb
    /\ createPc' = "begin"
    /\ UNCHANGED <<skeleton, limbs, scene, cns, picks, err, calls>>
    /\ UNCHANGED nonRigVars

\* the first statement of every example build(): self.importSkeleton()
ImportSkeleton ==
    /\ rigPc = "begun"
    /\ rigPc' = "build"
    /\ skeleton' = TRUE
    /\ UNCHANGED <<rigNodes, limbs, limb, scene, creating, createPc, cns, picks,
                   err, calls>>
    /\ UNCHANGED nonRigVars

\* Rig.addLimb, called by the build script on a limb object it instantiated
addLimb(l) ==
    /\ rigPc = "build"
    /\ creating = -1
    /\ l # WorldLimb
    /\ ~limb[l].rig
    /\ limb' = [limb EXCEPT ![l].rig = TRUE]
    /\ creating' = l
    /\ createPc' = "begin"
    /\ UNCHANGED <<rigPc, rigNodes, skeleton, limbs, scene, cns, picks, err, calls>>
    /\ UNCHANGED nonRigVars

\* the begin() of the limb's class
begin ==
    /\ creating # -1
    /\ createPc = "begin"
    /\ LET l == creating
           lb == LimbBaseBegin(limb[l])
           res == beginCheck(limb[l])
       IN /\ scene' = scene \cup {l}
          /\ IF res = "ok"
             THEN /\ limb' = [limb EXCEPT ![l] =
                                [lb EXCEPT !.phases = Append(@, "begin")]]
                  /\ createPc' = NextStatement(createPc)
                  /\ UNCHANGED <<rigPc, creating, err>>
             ELSE /\ limb' = [limb EXCEPT ![l] =
                                [lb EXCEPT !.phases = Append(@, "begin"),
                                           !.raised = "begin"]]
                  /\ Raise(res)
    /\ UNCHANGED <<rigNodes, skeleton, limbs, cns, picks, calls>>
    /\ UNCHANGED nonRigVars

\* what build() of each class leaves on the limb; "raise" names its exception
\* WorldOffset.build: three nested controls.  FKOffset.build: addPinParent and
\* one control.  FKOffsetBlend: the same on addPinBlend, which makes pinParent,
\* pinWorld and pinBlend.  SpineFK.build: addPinWorld, addPinParent, an FK
\* chain on the joint list and the hips control.  Limb.build is abstract.
buildLimb(lb) ==
    CASE lb.kind = "WorldOffset" ->
            [lb EXCEPT !.ctrls = 3]
      [] lb.kind = "FKOffset" ->
            [lb EXCEPT !.pinParent = TRUE, !.ctrls = 1]
      [] lb.kind = "FKOffsetBlend" ->
            [lb EXCEPT !.pinParent = TRUE, !.pinWorld = TRUE, !.pinBlend = TRUE,
                       !.ctrls = 1]
      [] lb.kind = "SpineFK" ->
            IF Len(getJointList(lb.startJoint, lb.endJoint)) < 2
            THEN [lb EXCEPT !.pinWorld = TRUE, !.raised = "build"]
            ELSE [lb EXCEPT !.pinWorld = TRUE, !.pinParent = TRUE,
                            !.ctrls = Len(getJointList(lb.startJoint, lb.endJoint)) + 1]
      [] OTHER -> [lb EXCEPT !.raised = "build"]

buildError(lb) ==
    IF lb.kind = "SpineFK" THEN "RuntimeError" ELSE "NotImplementedError"

\* the pick-walk edges build() makes inside the limb
buildPicks(l, lb) ==
    CASE lb.kind = "WorldOffset" ->
            {<<Ctrl(l, 3), Ctrl(l, 2)>>, <<Ctrl(l, 2), Ctrl(l, 1)>>}
      [] lb.kind = "SpineFK" ->
            {<<Ctrl(l, 2), Ctrl(l, 1)>>, <<Ctrl(l, 1), Ctrl(l, 3)>>}
      [] OTHER -> {}

build ==
    /\ creating # -1
    /\ createPc = "build"
    /\ LET l == creating
           lb == buildLimb(limb[l])
       IN /\ limb' = [limb EXCEPT ![l] = [lb EXCEPT !.phases = Append(@, "build")]]
          /\ IF lb.raised = "none"
             THEN /\ picks' = picks \cup buildPicks(l, lb)
                  /\ createPc' = NextStatement(createPc)
                  /\ UNCHANGED <<rigPc, creating, err>>
             ELSE /\ Raise(buildError(lb))
                  /\ UNCHANGED picks
    /\ UNCHANGED <<rigNodes, skeleton, limbs, scene, cns, calls>>
    /\ UNCHANGED nonRigVars

\* mpRig.getJointFromCtrl for the i-th control of a limb: the joint that
\* control drives by a connection or one constraint, None if there is none.
\* FKOffset: its control constrains startJoint.  SpineFK: the chain control
\* on the last joint constrains it, and the hips control (made last) took the
\* first joint over from chain control 1.  WorldOffset drives no joint.
getJointFromCtrl(lb, i) ==
    CASE lb.kind \in {"FKOffset", "FKOffsetBlend"} -> lb.startJoint
      [] lb.kind = "SpineFK" ->
            IF i = lb.ctrls THEN lb.startJoint
            ELSE IF i = lb.ctrls - 1 THEN lb.endJoint ELSE None
      [] OTHER -> None

\* Limb.setStartEndCtrls: keep what is set, else the control that drives the
\* start (end) joint, else the first (last) control made
setStartEndCtrls(l, lb) ==
    IF lb.startCtrl # None /\ lb.endCtrl # None THEN lb
    ELSE LET S == {i \in 1..lb.ctrls : getJointFromCtrl(lb, i) # None
                                       /\ getJointFromCtrl(lb, i) = lb.startJoint}
             E == {i \in 1..lb.ctrls : getJointFromCtrl(lb, i) # None
                                       /\ getJointFromCtrl(lb, i) = lb.endJoint}
             Min(X) == CHOOSE x \in X : \A y \in X : x <= y
             s == IF lb.startCtrl # None THEN lb.startCtrl
                  ELSE IF S # {} THEN Ctrl(l, Min(S)) ELSE Ctrl(l, 1)
             e == IF lb.endCtrl # None THEN lb.endCtrl
                  ELSE IF E # {} THEN Ctrl(l, Min(E)) ELSE Ctrl(l, lb.ctrls)
         IN [lb EXCEPT !.startCtrl = s, !.endCtrl = e]

\* mpAttr.visOveride(self.noXform, 0): hides the limb's noXform group
visOveride(lb) == [lb EXCEPT !.hidden = TRUE]

\* Limb.end
end ==
    /\ creating # -1
    /\ createPc = "end"
    /\ LET l == creating
           lb == setStartEndCtrls(l, visOveride(limb[l]))
       IN limb' = [limb EXCEPT ![l] = [lb EXCEPT !.phases = Append(@, "end")]]
    /\ createPc' = NextStatement(createPc)
    /\ UNCHANGED <<rigPc, rigNodes, skeleton, limbs, scene, creating, cns, picks,
                   err, calls>>
    /\ UNCHANGED nonRigVars

addLimbPrepend ==
    /\ creating # -1
    /\ createPc = "append"
    /\ limbs' = <<creating>> \o limbs
    /\ creating' = -1
    /\ createPc' = "idle"
    /\ rigPc' = IF rigPc = "begin" THEN "begun" ELSE rigPc
    /\ UNCHANGED <<rigNodes, skeleton, limb, scene, cns, picks, err, calls>>
    /\ UNCHANGED nonRigVars

\* the last statement of addLimb; the world offset's addLimb is the one in
\* Rig.begin, whose remaining statements set bookkeeping attributes only
addLimbAppend ==
    /\ creating # -1
    /\ createPc = "append"
    /\ limbs' = Append(limbs, creating)
    /\ creating' = -1
    /\ createPc' = NextStatement(createPc)
    /\ rigPc' = IF rigPc = "begin" THEN "begun" ELSE rigPc
    /\ UNCHANGED <<rigNodes, skeleton, limb, scene, cns, picks, err, calls>>
    /\ UNCHANGED nonRigVars

(* ------------------------------- wiring -------------------------------- *)
\* what a script may put on the right of '>' : a limb object or a node name
NodeDrivers == {Root, Ghost, Ctrl(WorldLimb, 3)}
Others == [isLimb : {TRUE}, id : LimbIds] \cup [isLimb : {FALSE}, id : NodeDrivers]

\* cmds.objExists(None): the sources never call it on purpose and the Maya
\* documentation does not say whether it answers False or raises TypeError
objExistsNone == {"False", "TypeError"}

\* __gt__ lines 113-118: hasattr(other,'endJoint') holds for every Limb,
\* because __init__ sets the attribute (to None), so the elif is never taken
hasattrEndJoint(lb) == TRUE

drivingNode(other) ==
    IF other.isLimb
    THEN IF hasattrEndJoint(limb[other.id]) THEN limb[other.id].endJoint
         ELSE limb[other.id].startJoint
    ELSE other.id

\* mpRig.getCtrlFromJoint: the controls that drive a node, by the same
\* connections getJointFromCtrl follows from the other side
getCtrlFromJoint(n) ==
    UNION {{Ctrl(l, i) : i \in {j \in 1..limb[l].ctrls :
                                   getJointFromCtrl(limb[l], j) = n}} : l \in scene}

\* cmds.parentConstraint(driver, pin, mo=True)
parentConstraint(driver, l, pin, by) ==
    [driver |-> driver, limb |-> l, pin |-> pin, by |-> by]

\* listConnections(pin+'.tx', s=1, d=0): only a constraint on the pin feeds it
hasCnx(c, l, pin) == \E k \in c : k.limb = l /\ k.pin = pin

pinParentUnset(l) == ~limb[l].pinParent

\* the guard of __gt__: not self.pinParent or not cmds.objExists(self.pinParent)
pinParentMissing(l) == ~limb[l].pinParent \/ l \notin scene

Call(op, l, other, res) ==
    [op |-> op, target |-> l, isLimb |-> other.isLimb, other |-> other.id, res |-> res]

\* Limb.__gt__ : limb l  >  other
gt(l, other) ==
    /\ rigPc \in {"build", "cleared"}
    /\ creating = -1
    /\ Len(calls) < MaxWires
    /\ ~(other.isLimb /\ other.id = l)
    /\ IF pinParentMissing(l)
       THEN /\ Raise("RuntimeError")
            /\ calls' = Append(calls, Call(">", l, other, "RuntimeError"))
            /\ UNCHANGED <<cns, picks>>
       ELSE \E onNone \in objExistsNone :
            LET d == drivingNode(other)
                exists == IF d = None THEN FALSE ELSE objExists(d)
                raises == d = None /\ onNone = "TypeError"
            IN IF raises
               THEN /\ Raise("TypeError")
                    /\ calls' = Append(calls, Call(">", l, other, "TypeError"))
                    /\ UNCHANGED <<cns, picks>>
               ELSE /\ cns' = IF exists
                              THEN cns \cup {parentConstraint(d, l, "pinParent", "script")}
                              ELSE cns
                    /\ IF other.isLimb
                       THEN picks' = IF limb[l].startCtrl # None
                                        /\ limb[other.id].endCtrl # None
                                     THEN picks \cup {<<limb[l].startCtrl,
                                                        limb[other.id].endCtrl>>}
                                     ELSE picks
                       ELSE IF objExists(other.id) /\ getCtrlFromJoint(other.id) # {}
                            THEN \E endCtrl \in getCtrlFromJoint(other.id) :
                                    picks' = picks \cup {<<limb[l].startCtrl, endCtrl>>}
                            ELSE picks' = picks
                    /\ calls' = Append(calls, Call(">", l, other, "ok"))
                    /\ UNCHANGED <<rigPc, creating, createPc, err>>
    /\ UNCHANGED <<rigNodes, skeleton, limbs, limb, scene>>
    /\ UNCHANGED nonRigVars

\* Limb.__rshift__ : limb l  >>  node
rshift(l, node) ==
    /\ rigPc \in {"build", "cleared"}
    /\ creating = -1
    /\ Len(calls) < MaxWires
    /\ objExists(node)
    /\ LET other == [isLimb |-> FALSE, id |-> node]
       IN IF limb[l].pinWorld /\ l \in scene
          THEN /\ cns' = cns \cup {parentConstraint(node, l, "pinWorld", "script")}
               /\ calls' = Append(calls, Call(">>", l, other, "ok"))
               /\ UNCHANGED <<rigPc, creating, createPc, err>>
          ELSE \E onNone \in objExistsNone :
               LET e == IF ~limb[l].pinWorld /\ onNone = "TypeError"
                        THEN "TypeError" ELSE "RuntimeError"
               IN /\ Raise(e)
                  /\ calls' = Append(calls, Call(">>", l, other, e))
                  /\ UNCHANGED cns
    /\ UNCHANGED <<rigNodes, skeleton, limbs, limb, scene, picks>>
    /\ UNCHANGED nonRigVars

(* ------------------------------ Rig.end -------------------------------- *)
worldCtrlFirst == Ctrl(limbs[1], 1)

\* self.limbs[0].ctrls[-1], the node cleanupDanglingLimbs attaches pins to
worldCtrl == Ctrl(limbs[1], limb[limbs[1]].ctrls)

\* Rig.cleanupDanglingLimbs from the i-th limb of Rig.limbs on
RECURSIVE cleanupDanglingLimbs(_, _)
cleanupDanglingLimbs(i, c) ==
    IF i > Len(limbs) THEN c
    ELSE LET l == limbs[i]
             world == worldCtrl
             c2 == IF limb[l].pinWorld
                   THEN IF ~hasCnx(c, l, "pinWorld")
                        THEN c \cup {parentConstraint(world, l, "pinWorld", "cleanup")}
                        ELSE c
                   ELSE IF limb[l].pinParent
                        THEN IF ~hasCnx(c, l, "pinParent")
                             THEN c \cup {parentConstraint(world, l, "pinParent",
                                                             "cleanup")}
                             ELSE c
                        ELSE c
         IN cleanupDanglingLimbs(i + 1, c2)

\* Rig.end, run by Rig.create when the build script has returned: the object
\* sets and locks it makes first are not part of this model
RigEnd ==
    /\ rigPc = "build"
    /\ creating = -1
    /\ rigPc' = "done"
    /\ cns' = cleanupDanglingLimbs(1, cns)
    /\ UNCHANGED <<rigNodes, skeleton, limbs, limb, scene, creating, createPc,
                   picks, err, calls>>
    /\ UNCHANGED nonRigVars

\* cmds.file(new=True, f=True), the first statement of the next Rig.begin in
\* the session: every node is gone, the Python objects keep their fields
NewScene ==
    /\ rigPc \in {"build", "done"}
    /\ creating = -1
    /\ rigPc' = "cleared"
    /\ rigNodes' = 0
    /\ skeleton' = FALSE
    /\ scene' = {}
    /\ cns' = {}
    /\ picks' = {}
    /\ UNCHANGED <<limbs, limb, creating, createPc, err, calls>>
    /\ UNCHANGED nonRigVars

Next ==
    \/ RigBegin
    \/ begin
    \/ build
    \/ end
    \/ addLimbAppend
    \/ ImportSkeleton
    \/ \E l \in LimbIds : addLimb(l)
    \/ \E l \in LimbIds, other \in Others : gt(l, other)
    \/ \E l \in LimbIds, node \in NodeDrivers \ {Ghost} : rshift(l, node)
    \/ RigEnd
    \/ NewScene

(* ===================== properties of the rig build ===================== *)
AllPhases == <<"begin", "build", "end">>
InLimbs(l) == \E i \in 1..Len(limbs) : limbs[i] = l
CnsOn(l, pin) == {k \in cns : k.limb = l /\ k.pin = pin}
LastCall == calls[Len(calls)]

\* C1: Limb.create runs begin, build, end once each and in that order; build
\* starts only when begin has made limbNode and noXform; when a phase raises
\* no later phase runs and the exception ends the calling script
C1_CreateOrder ==
    \A l \in LimbIds :
        /\ \E n \in 0..3 : limb[l].phases = SubSeq(AllPhases, 1, n)
        /\ (creating = l /\ createPc = "build") =>
               limb[l].limbNode /\ limb[l].noXform /\ limb[l].phases = <<"begin">>
        /\ (creating = l /\ createPc = "end") => limb[l].phases = <<"begin", "build">>
        /\ (creating = l /\ createPc = "append") => limb[l].phases = AllPhases
        /\ limb[l].raised # "none" =>
               /\ limb[l].phases[Len(limb[l].phases)] = limb[l].raised
               /\ err # "none" /\ rigPc = "raised"
               /\ creating = -1 /\ ~InLimbs(l)
        /\ InLimbs(l) => limb[l].phases = AllPhases /\ limb[l].raised = "none"

C1_Witness ==
    /\ \E l \in LimbIds : limb[l].raised = "build" /\ limb[l].phases = <<"begin", "build">>
    /\ \E l \in LimbIds \ {WorldLimb} : InLimbs(l)

\* C2: once Rig.begin has returned, Rig.limbs[0] is the world offset limb made
\* by begin, whatever addLimb calls follow, and every limb in Rig.limbs
\* finished its create()
C2_WorldOffsetFirst ==
    /\ rigPc \in {"init", "begin"} => limbs = << >>
    /\ rigPc \notin {"init", "begin"} =>
          /\ Len(limbs) >= 1
          /\ limbs[1] = WorldLimb
          /\ limb[limbs[1]].kind = "WorldOffset"
          /\ \A i \in 2..Len(limbs) :
                limbs[i] # WorldLimb /\ limb[limbs[i]].kind # "WorldOffset"
          /\ \A i \in 1..Len(limbs) :
                limb[limbs[i]].phases = AllPhases /\ limb[limbs[i]].raised = "none"

C2_Witness ==
    /\ Len(limbs) = 2
    /\ limbs[1] = WorldLimb
    /\ \E l \in LimbIds : limb[l].raised # "none" /\ ~InLimbs(l)

\* C3: after Rig.end every pinParent and every pinWorld of a limb in Rig.limbs
\* that the build script left without a constraint is parent-constrained to
\* the last control of limbs[0], and a pin the script constrained gets no
\* further constraint
C3_AllPinsAttached ==
    rigPc = "done" =>
        \A i \in 1..Len(limbs) : \A pin \in {"pinParent", "pinWorld"} :
            LET l == limbs[i]
                byScript == {k \in CnsOn(l, pin) : k.by = "script"}
                byCleanup == {k \in CnsOn(l, pin) : k.by = "cleanup"}
            IN limb[l][pin] =>
                  IF byScript = {}
                  THEN /\ Cardinality(byCleanup) = 1
                       /\ \A k \in byCleanup : k.driver = worldCtrl
                  ELSE byCleanup = {}

\* C8: '>' on a limb whose pinParent is unset or is no longer in the scene
\* raises RuntimeError and makes no constraint and no pick-walk edge
C8_WireWithoutPin ==
    [][ ( /\ Len(calls') = Len(calls) + 1
          /\ calls'[Len(calls')].op = ">"
          /\ LET l == calls'[Len(calls')].target
             IN ~limb[l].pinParent \/ l \notin scene )
        => /\ err' = "RuntimeError"
           /\ rigPc' = "raised"
           /\ cns' = cns
           /\ picks' = picks ]_vars

C8_Witness ==
    /\ calls # << >>
    /\ LastCall.op = ">"
    /\ LastCall.res = "RuntimeError"
    /\ limb[LastCall.target].pinParent
    /\ LastCall.target \notin scene
    /\ err = "RuntimeError"

\* C9: limb > driverLimb constrains the limb's pinParent to the driver's
\* endJoint when it has one and to its startJoint otherwise
C9_DriverJoint ==
    [][ \A l \in LimbIds, o \in LimbIds :
          ( /\ Len(calls') = Len(calls) + 1
            /\ calls'[Len(calls')].op = ">"
            /\ calls'[Len(calls')].target = l
            /\ calls'[Len(calls')].isLimb
            /\ calls'[Len(calls')].other = o
            /\ limb[l].pinParent /\ l \in scene
            /\ LET j == IF limb[o].endJoint # None THEN limb[o].endJoint
                        ELSE limb[o].startJoint
               IN j # None /\ objExists(j) )
          => LET j == IF limb[o].endJoint # None THEN limb[o].endJoint
                      ELSE limb[o].startJoint
             IN parentConstraint(j, l, "pinParent", "script") \in cns' ]_vars

\* C26: '>' with a driver for which no control can be resolved (a Limb, or
\* the name of a node of the scene) still constrains the pinParent, adds no
\* pick-walk edge and raises nothing
C26_PickWalkBestEffort ==
    [][ \A l \in LimbIds :
          ( /\ Len(calls') = Len(calls) + 1
            /\ calls'[Len(calls')].op = ">"
            /\ calls'[Len(calls')].target = l
            /\ limb[l].pinParent /\ l \in scene
            /\ LET c == calls'[Len(calls')]
               IN IF c.isLimb
                  THEN limb[l].startCtrl = None \/ limb[c.other].endCtrl = None
                  ELSE objExists(c.other) /\ getCtrlFromJoint(c.other) = {} )
          => /\ calls'[Len(calls')].res = "ok"
             /\ err' = err
             /\ picks' = picks
             /\ \E k \in cns' : k.limb = l /\ k.pin = "pinParent" /\ k.by = "script" ]_vars

\* C10: the world offset plus one FKOffset limb wired once with '>' to the
\* world offset gives, when Rig.create has returned, one rig root node, the
\* world offset at limbs[0], and one more limb whose pinParent carries a
\* parent constraint driven by the world offset's end control
MinimalRig ==
    /\ rigPc = "done"
    /\ Len(limbs) = 2
    /\ limb[limbs[2]].kind = "FKOffset"
    /\ Len(calls) = 1
    /\ calls[1].op = ">"
    /\ calls[1].target = limbs[2]
    /\ \/ calls[1].isLimb /\ calls[1].other = WorldLimb
       \/ ~calls[1].isLimb /\ calls[1].other = limb[WorldLimb].endCtrl

C12_BeginErrorLeavesNoNode ==
    \A l \in LimbIds :
        (rigPc = "raised" /\ limb[l].raised = "begin") =>
            /\ l \notin scene
            /\ ~limb[l].limbNode
            /\ ~limb[l].noXform

(* ================= Limb.addFKChain / addIKChain / addFKIKChain ========= *)
\* names of the controls of the chain: one FK control per joint, in joint
\* order, then the two IK controls made by addIKChain
fkCtrl(i) == i
aimCtrl == MaxJoints + 1
endCtrl == MaxJoints + 2
fkCtrls == [i \in 1..jointCount |-> fkCtrl(i)]

\* joint i of jointList (i from 1), the node passed as parent, the limb node,
\* and a control the limb had before the call
chainJoint(i) == 0 - i
PinNode == MaxJoints + 3
LimbNode == MaxJoints + 4
priorCtrl == MaxJoints + 5
\* the null under the last FK control the end control snaps to, and the
\* node passed as worldParent
endSnapNull == MaxJoints + 6
WorldPin == MaxJoints + 7
ChainCtrlIds == (1..MaxJoints + 2) \cup {endSnapNull}

\* the group the skeleton is under, and allParents[0].split('|') for the
\* end joint: '', the group, then the joints above the end joint.  The
\* chain has jointCount joints, startJoint is the first, endJoint the last
SkeletonGrp == MaxJoints + 8
parList == <<None, SkeletonGrp>> \o [i \in 1..jointCount - 1 |-> chainJoint(i)]

\* mpJoint.getJointList raises: `if not startJoint in parList`
jointListRaises == \A k \in 1..Len(parList) : parList[k] # chainJoint(1)

\* the builders of a chain a limb's build() calls
Builders == {"addFKChain", "addIKChain", "addFKIKChain"}

tooShortTwo(n) == n < 2

\* len(jointList)<3
tooShort(n) == n < 3

addPickParentSwapped(edges, ctrlName, parent) == edges \cup {<<parent, ctrlName>>}

\* mpRig.addPickParent: a connection parent.pickChildren -> ctrl.pickParents,
\* made once
addPickParent(edges, ctrlName, parent) == edges \cup {<<ctrlName, parent>>}

\* cmds.listConnections(ctrlName+'.snapParents',s=1,d=0): the snap sources of
\* a control in the order of the indices of the multi attribute
childCons(edges, ctrlName) ==
    [k \in 1..Cardinality({e \in edges : e[1] = ctrlName}) |->
        (CHOOSE e \in edges : e[1] = ctrlName /\ e[3] = k - 1)[2]]

addSnapParentFront(edges, ctrlName, parent) ==
    IF \E e \in edges : e[1] = ctrlName /\ e[2] = parent THEN edges
    ELSE {IF e[1] = ctrlName THEN <<e[1], e[2], e[3] + 1>> ELSE e : e \in edges}
            \cup {<<ctrlName, parent, 0>>}

\* mpRig.addSnapParent: a connection parent.snapChildren ->
\* ctrl.snapParents[childIndex], childIndex = len(childCons), made once
addSnapParent(edges, ctrlName, parent) ==
    IF \E e \in edges : e[1] = ctrlName /\ e[2] = parent THEN edges
    ELSE edges \cup {<<ctrlName, parent, Len(childCons(edges, ctrlName))>>}

lockTExceptFirst(idx) == idx # 0

\* mpAttr.lockAndHide(fkCtrl,'t') in the loop of addFKChain: run for every idx
lockT(idx) == TRUE

\* Limb.addCtrl: `if not parent: parent = self.limbNode`
addCtrlParent(parent) == IF parent = None THEN LimbNode ELSE parent

\* the loop `for idx,joint in enumerate(jointList)` of addFKChain, from turn
\* idx on; st holds the locals ctrlParent, prevCtrl, fkCtrls and what the
\* turns so far did to the limb and the scene
RECURSIVE addFKChainLoop(_, _)
addFKChainLoop(idx, st) ==
    IF idx >= jointCount THEN st
    ELSE LET fk == fkCtrl(idx + 1)
             jt == chainJoint(idx + 1)
         IN addFKChainLoop(idx + 1,
              [ctrlParent |-> fk,
               prevCtrl   |-> fk,
               fkCtrls    |-> Append(st.fkCtrls, fk),
               ctrls      |-> Append(st.ctrls, fk),
               parentOf   |-> [st.parentOf EXCEPT ![fk] = addCtrlParent(st.ctrlParent)],
               pointCns   |-> IF idx = 0 THEN st.pointCns \cup {<<fk, jt>>}
                              ELSE st.pointCns,
               orientCns  |-> st.orientCns \cup {<<fk, jt>>},
               lockedT    |-> IF lockT(idx) THEN st.lockedT \cup {fk} ELSE st.lockedT,
               picks      |-> IF st.prevCtrl # None
                              THEN addPickParent(st.picks, fk, st.prevCtrl)
                              ELSE st.picks,
               snaps      |-> addSnapParent(st.snaps, fk, jt)])

ChainInit ==
    /\ chainPc = "call"
    /\ builder \in Builders
    /\ jointCount \in 1..MaxJoints
    /\ bent \in BOOLEAN
    /\ parentArg \in {PinNode, None}
    /\ chainCtrls \in {<< >>, <<priorCtrl>>}
    /\ axes = << >>
    /\ locked = [i \in 1..MaxJoints |-> {}]
    /\ dotsIndex = [i \in 1..MaxJoints |-> -1]
    /\ mid = 0
    /\ returned = << >>
    /\ chainErr = "none"
    /\ FKIK = [exists |-> FALSE, min |-> 0, max |-> 0, value |-> 0, frac |-> 0]
    /\ handle = FALSE
    /\ ctrlParent = [c \in ChainCtrlIds |-> None]
    /\ pickParents = {}
    /\ snapParents = {}
    /\ lockedT = {}
    /\ pointCns = {}

chainRaise(e) ==
    /\ chainPc' = "raised"
    /\ chainErr' = e

\* addFKChain, called by build() or by addFKIKChain after its length check:
\* one FK control per joint, appended to limb.ctrls by addCtrl
addFKChain ==
    /\ chainPc = "call"
    /\ builder \in {"addFKChain", "addFKIKChain"}
    /\ IF jointListRaises \/ (builder = "addFKIKChain" /\ tooShort(jointCount))
       THEN /\ chainRaise("RuntimeError")
            /\ UNCHANGED <<chainCtrls, returned, ctrlParent, pickParents,
                           snapParents, lockedT, pointCns>>
       ELSE LET res == addFKChainLoop(0,
                          [ctrlParent |-> parentArg, prevCtrl |-> None,
                           fkCtrls |-> << >>, ctrls |-> chainCtrls,
                           parentOf |-> ctrlParent, pointCns |-> pointCns,
                           orientCns |-> {}, lockedT |-> lockedT,
                           picks |-> pickParents, snaps |-> snapParents])
            IN /\ chainPc' = IF builder = "addFKChain" THEN "done" ELSE "ik"
               /\ chainCtrls' = res.ctrls
               /\ returned' = IF builder = "addFKChain" THEN res.fkCtrls ELSE returned
               /\ ctrlParent' = res.parentOf
               /\ pickParents' = res.picks
               /\ snapParents' = res.snaps
               /\ lockedT' = res.lockedT
               /\ pointCns' = res.pointCns
               /\ UNCHANGED chainErr
    /\ UNCHANGED <<builder, jointCount, bent, parentArg, axes, locked, dotsIndex,
                   mid, FKIK, handle>>
    /\ UNCHANGED nonChainVars

\* addIKChain, called by build() or by addFKIKChain: the length check, the
\* IK handle, then getAimVector, which raises on a straight chain before any
\* IK control is made; else the aim and the end control are added.  In
\* addFKIKChain the statement after it binds axes=['x','y','z'], once,
\* before the loop
addIKChain ==
    /\ \/ chainPc = "call" /\ builder = "addIKChain"
       \/ chainPc = "ik"
    /\ IF jointListRaises \/ tooShort(jointCount)
       THEN /\ chainRaise("RuntimeError")
            /\ UNCHANGED <<chainCtrls, axes, mid, returned, handle, ctrlParent,
                           pickParents>>
       ELSE IF ~bent
       THEN /\ chainRaise("RuntimeError")
            /\ handle' = TRUE
            /\ UNCHANGED <<chainCtrls, axes, mid, returned, ctrlParent, pickParents>>
       ELSE /\ handle' = TRUE
            /\ chainCtrls' = chainCtrls \o <<aimCtrl, endCtrl>>
            /\ ctrlParent' = [ctrlParent EXCEPT ![aimCtrl] = addCtrlParent(WorldPin),
                                                ![endCtrl] = addCtrlParent(WorldPin)]
            /\ pickParents' = addPickParent(addPickParent(pickParents, aimCtrl, endCtrl),
                                            endCtrl, aimCtrl)
            /\ IF builder = "addIKChain"
               THEN /\ chainPc' = "done"
                    /\ returned' = <<aimCtrl, endCtrl>>
                    /\ UNCHANGED <<axes, mid>>
               ELSE /\ chainPc' = "lock"
                    /\ axes' = <<"x", "y", "z">>
                    /\ mid' = 2
                    /\ UNCHANGED returned
            /\ UNCHANGED chainErr
    /\ UNCHANGED <<builder, jointCount, bent, parentArg, locked, dotsIndex, FKIK,
                   snapParents, lockedT, pointCns>>
    /\ UNCHANGED nonChainVars

\* del axes[i] of a Python list, i counted from 0; IndexError is << "IndexError" >>
del(list, i) ==
    IF i + 1 > Len(list) THEN <<"IndexError">>
    ELSE [k \in 1..Len(list) - 1 |-> IF k < i + 1 THEN list[k] ELSE list[k + 1]]

\* one turn of `for ctrl in fkCtrls[1:-1]`: the local axis of the control
\* most parallel to the chain normal (index best, given by the pose of the
\* skeleton) is deleted from axes, the axes that remain are locked
lockMidCtrl ==
    /\ chainPc = "lock"
    /\ mid <= jointCount - 1
    /\ \E best \in 0..2 :
          IF del(axes, best) = <<"IndexError">>
          THEN /\ chainRaise("IndexError")
               /\ UNCHANGED <<axes, locked, dotsIndex, mid>>
          ELSE /\ axes' = del(axes, best)
               /\ locked' = [locked EXCEPT ![mid] =
                                {del(axes, best)[k] : k \in 1..Len(del(axes, best))}]
               /\ dotsIndex' = [dotsIndex EXCEPT ![mid] = best]
               /\ mid' = mid + 1
               /\ UNCHANGED <<chainPc, chainErr>>
    /\ UNCHANGED <<builder, jointCount, bent, parentArg, chainCtrls, returned, FKIK,
                   handle, ctrlParent, pickParents, snapParents, lockedT, pointCns>>
    /\ UNCHANGED nonChainVars

\* the rest of addFKIKChain: the stub joint, the FKIK attribute
\* (min=0, max=1, dv=0), visibility and snap wiring, and the return
finishFKIKChain ==
    /\ chainPc = "lock"
    /\ mid > jointCount - 1
    /\ chainPc' = "done"
    /\ FKIK' = [exists |-> TRUE, min |-> 0, max |-> 1, value |-> 0, frac |-> 0]
    /\ ctrlParent' = [ctrlParent EXCEPT ![endSnapNull] = fkCtrls[Len(fkCtrls)]]
    /\ snapParents' =
          addSnapParent(addSnapParent(addSnapParent(addSnapParent(snapParents,
              endCtrl, endSnapNull), aimCtrl, fkCtrls[1]), aimCtrl, fkCtrls[2]),
              aimCtrl, fkCtrls[3])
    /\ returned' = fkCtrls \o <<aimCtrl, endCtrl>>
    /\ UNCHANGED <<builder, jointCount, bent, parentArg, chainCtrls, axes, locked,
                   dotsIndex, mid, chainErr, handle, pickParents, lockedT, pointCns>>
    /\ UNCHANGED nonChainVars

\* the float FKIK attribute is held as value + frac / Unit: a whole part and
\* a fraction in ticks of 1e-7, the resolution of the offset 0.4999999
Unit == 10000000
Half == 5000000
Bias == 4999999
Fracs == {0, 1, Bias, Half, Half + 1, Unit - 1}
ticks(a) == a.value * Unit + a.frac

\* cmds.setAttr on the FKIK attribute by a tool or the animator: Maya keeps a
\* bounded attribute inside its bounds, by clamping the value or refusing it
setFKIK(v, f) ==
    /\ chainPc = "done"
    /\ FKIK.exists
    /\ \E clamps \in BOOLEAN :
          FKIK' = IF v * Unit + f < FKIK.min * Unit
                      THEN (IF clamps THEN [FKIK EXCEPT !.value = FKIK.min, !.frac = 0]
                                      ELSE FKIK)
                  ELSE IF v * Unit + f > FKIK.max * Unit
                      THEN (IF clamps THEN [FKIK EXCEPT !.value = FKIK.max, !.frac = 0]
                                      ELSE FKIK)
                  ELSE [FKIK EXCEPT !.value = v, !.frac = f]
    /\ UNCHANGED <<chainPc, builder, jointCount, bent, parentArg, chainCtrls, axes,
                   locked, dotsIndex, mid, returned, chainErr, handle, ctrlParent,
                   pickParents, snapParents, lockedT, pointCns>>
    /\ UNCHANGED nonChainVars

\* connectWithAdd: an addDoubleLinear node, output = input1 + input2
connectWithAdd(src, add) == src + add

\* connectWithReverse: a reverse node, output = 1 - input
connectWithReverse(src) == Unit - src

\* the value a double output gives the boolean .v plug it is connected to:
\* Maya converts on the connection, by rounding to the nearest whole number
\* or by truncating; mpyr does not choose and the source does not say which
Casts == {"round", "truncate"}
toBool(x, cast) == IF cast = "round" THEN x >= Half ELSE x >= Unit

\* "switch ctrl vis": the shape visibility of the IK controls (aim, end)
visIK(cast) == toBool(connectWithAdd(ticks(FKIK), Bias), cast)

\* and of the FK controls, the reverse of the blend less the offset
visFK(cast) == toBool(connectWithReverse(connectWithAdd(ticks(FKIK), 0 - Bias)), cast)

NextChain ==
    \/ addFKChain
    \/ addIKChain
    \/ lockMidCtrl
    \/ finishFKIKChain
    \/ \E v \in -1..2, f \in Fracs : setFKIK(v, f)

\* C4: on every chain of three or more joints addFKIKChain returns the FK
\* controls in joint order, then the aim control, then the end control,
\* n + 2 controls that are all in limb.ctrls, and the FKIK attribute it makes
\* is bounded to [0,1]
C4_ReturnsAllControls ==
    (builder = "addFKIKChain" /\ jointCount >= 3 /\ bent) =>
        /\ chainPc # "raised"
        /\ chainPc = "done" =>
              /\ Len(returned) = jointCount + 2
              /\ \A i \in 1..jointCount : returned[i] = fkCtrl(i)
              /\ returned[jointCount + 1] = aimCtrl
              /\ returned[jointCount + 2] = endCtrl
              /\ \A i \in 1..Len(returned) :
                    \E k \in 1..Len(chainCtrls) : chainCtrls[k] = returned[i]
              /\ FKIK.exists /\ FKIK.min = 0 /\ FKIK.max = 1
              /\ FKIK.value >= 0 /\ FKIK.value <= 1

\* C11: addIKChain and addFKIKChain on a chain of fewer than three joints
\* raise RuntimeError as their first effect: limb.ctrls, the controls'
\* parents, the IK handle and the limb attribute are as before the call
C11_ShortChainRaisesFirst ==
    [][ (chainPc = "call" /\ builder \in {"addIKChain", "addFKIKChain"}
                          /\ jointCount < 3) =>
            /\ chainPc' = "raised"
            /\ chainErr' = "RuntimeError"
            /\ chainCtrls' = chainCtrls
            /\ ctrlParent' = ctrlParent
            /\ handle' = handle
            /\ FKIK' = FKIK ]_vars

C11_Witness ==
    /\ chainPc = "raised"
    /\ builder = "addIKChain"
    /\ jointCount = 2
    /\ chainCtrls = <<priorCtrl>>
    /\ ~handle
    /\ ~FKIK.exists

\* the name of the axis at an index of ['x','y','z']
axisName(k) == <<"x", "y", "z">>[k + 1]

\* C21: addFKChain with startJoint and endJoint the same joint returns one
\* control and makes no pick-walk edge
C21_SingleJointChain ==
    (builder = "addFKChain" /\ jointCount = 1 /\ chainPc # "call") =>
        /\ chainPc = "done"
        /\ Len(returned) = 1
        /\ pickParents = {}

\* C22: at every value b of the FKIK blend in [0,1] the FK control shapes are
\* visible iff b < 0.5 and the IK control shapes iff b >= 0.5, so exactly one
\* of the two groups is visible, whichever way Maya converts the double
C22_ExactlyOneGroupVisible ==
    (builder = "addFKIKChain" /\ chainPc = "done") =>
        \E cast \in Casts :
            /\ visFK(cast) <=> ticks(FKIK) < Half
            /\ visIK(cast) <=> ticks(FKIK) >= Half

\* C23: after addFKIKChain the IK end control has exactly one snap source, a
\* null under the last FK control, and the IK aim control exactly three, the
\* first three FK controls in chain order
C23_SnapSourcesOfIKControls ==
    (builder = "addFKIKChain" /\ chainPc = "done") =>
        /\ childCons(snapParents, endCtrl) = <<endSnapNull>>
        /\ ctrlParent[endSnapNull] = fkCtrl(jointCount)
        /\ childCons(snapParents, aimCtrl) = <<fkCtrl(1), fkCtrl(2), fkCtrl(3)>>

C23_Witness ==
    /\ builder = "addFKIKChain"
    /\ chainPc = "done"
    /\ jointCount = 4
    /\ Len(childCons(snapParents, aimCtrl)) = 3
    /\ ctrlParent[endSnapNull] = fkCtrl(4)

\* C15: after addFKIKChain every interior FK control has two rotate axes
\* locked and one free, the free one being its own local axis most parallel
\* to the chain normal; the first and the last FK control have none locked
C15_OneFreeAxisPerControl ==
    (builder = "addFKIKChain" /\ chainPc = "done") =>
        /\ locked[1] = {}
        /\ locked[jointCount] = {}
        /\ \A i \in 2..jointCount - 1 :
              locked[i] = {"x", "y", "z"} \ {axisName(dotsIndex[i])}

\* C19: addFKChain on n joints returns n controls in joint order; the zero
\* of the first is under the given parent (the limb node when none is
\* given), that of control i under control i-1; the pick-walk edges are
\* control i -> control i-1 and no other; every control has one snap
\* source, its joint
C19_FKChainStructure ==
    (builder = "addFKChain" /\ chainPc = "done") =>
        /\ Len(returned) = jointCount
        /\ \A i \in 1..jointCount : returned[i] = fkCtrl(i)
        /\ ctrlParent[returned[1]] = (IF parentArg = None THEN LimbNode ELSE parentArg)
        /\ \A i \in 2..jointCount : ctrlParent[returned[i]] = returned[i - 1]
        /\ pickParents = {<<returned[i], returned[i - 1]>> : i \in 2..jointCount}
        /\ \A i \in 1..jointCount :
              {e \in snapParents : e[1] = returned[i]}
                  = {<<returned[i], chainJoint(i), 0>>}

C19_Witness ==
    /\ builder = "addFKChain"
    /\ chainPc = "done"
    /\ jointCount = 3
    /\ parentArg = PinNode
    /\ Cardinality(pickParents) = 2
    /\ Cardinality(snapParents) = 3

\* C20: after addFKChain translate is locked on every FK control, the first
\* included; the first control alone point-constrains its joint
C20_TranslateLockedOnAll ==
    (builder \in {"addFKChain", "addFKIKChain"} /\ chainPc \in {"ik", "lock", "done"}) =>
        /\ lockedT = {fkCtrl(i) : i \in 1..jointCount}
        /\ pointCns = {<<fkCtrl(1), chainJoint(1)>>}

C20_Witness ==
    /\ builder = "addFKChain"
    /\ chainPc = "done"
    /\ jointCount = 4
    /\ fkCtrl(1) \in lockedT
    /\ <<fkCtrl(1), chainJoint(1)>> \in pointCns

\* C20 as first stated: translate is locked on every FK control but the
\* first, which keeps it unlocked and point-constrains its joint
C20_FirstTranslateFree ==
    (builder \in {"addFKChain", "addFKIKChain"} /\ chainPc \in {"ik", "lock", "done"}) =>
        /\ lockedT = {fkCtrl(i) : i \in 2..jointCount}
        /\ pointCns = {<<fkCtrl(1), chainJoint(1)>>}

(* ========================== Limb.addPinBlend =========================== *)
Angles == 0..MaxAngle

PinInit ==
    /\ pinPc = "new"
    /\ jointRot \in Angles
    /\ pinRot = [pinParent |-> 0, pinWorld |-> 0]
    /\ localWorldBlend = 0
    /\ offset = 0

reverseAsInput(x) == x

\* the reverse node blendConstraint puts before weight w0: output = 1 - input
reverse(x) == BlendSteps - x

\* blendConstraint: the attribute drives w1 (driver2, pinWorld), its reverse
\* drives w0 (driver1, pinParent)
weights == [w0 |-> reverse(localWorldBlend), w1 |-> localWorldBlend]

\* the orientation the orient constraint gives pinBlend, times BlendSteps:
\* the weighted mean of the two drivers, turned by the offset it keeps
pinBlendRot ==
    weights.w0 * pinRot.pinParent + weights.w1 * pinRot.pinWorld + BlendSteps * offset

\* Limb.addPinBlend: the attribute (dv=0), pinParent and pinWorld moved to the
\* start joint, pinBlend a new group under the limb node (orientation 0), the
\* orient constraint made with mo=True: it keeps pinBlend where it is
addPinBlend ==
    /\ pinPc = "new"
    /\ pinPc' = "built"
    /\ localWorldBlend' = 0
    /\ pinRot' = [pinParent |-> jointRot, pinWorld |-> jointRot]
    /\ offset' = 0 - jointRot
    /\ UNCHANGED jointRot
    /\ UNCHANGED nonPinVars

\* the animator sets localWorldBlend
setBlend(b) ==
    /\ pinPc = "built"
    /\ localWorldBlend' = b
    /\ UNCHANGED <<pinPc, jointRot, pinRot, offset>>
    /\ UNCHANGED nonPinVars

\* the node a pin is parent-constrained to ('>' , '>>' or Rig.end) turns
drivePin(pin, a) ==
    /\ pinPc = "built"
    /\ pinRot' = [pinRot EXCEPT ![pin] = a]
    /\ UNCHANGED <<pinPc, jointRot, localWorldBlend, offset>>
    /\ UNCHANGED nonPinVars

NextPin ==
    \/ addPinBlend
    \/ \E b \in 0..BlendSteps : setBlend(b)
    \/ \E pin \in {"pinParent", "pinWorld"}, a \in Angles : drivePin(pin, a)

AllCtrls == {"fk0", "fk1", "fk2", "ballFK", "aim", "end", "foot", "heel", "toeTip", "ball"}

\* the controls of the limb's FK set and of its IK set.  addFKIKChain makes
\* fk0..fk2, aim and end; LegFKIK.build adds ballFK and the reverse foot
\* (foot, heel, toeTip, ball) and deletes the end control
CtrlSetFK == IF topo = "chain" THEN {"fk0", "fk1", "fk2"}
             ELSE {"fk0", "fk1", "fk2", "ballFK"}
CtrlSetIK == IF topo = "chain" THEN {"aim", "end"}
             ELSE {"aim", "foot", "heel", "toeTip", "ball"}
CtrlSet(dir) == IF dir = "IKFK" THEN CtrlSetIK ELSE CtrlSetFK

\* the control that moves the IK handle
endIK == IF topo = "chain" THEN "end" ELSE "foot"

\* the parent given to addCtrl; the pins do not move during a snap
parentOf(c) ==
    CASE c = "fk0"    -> "pinBlend"
      [] c = "fk1"    -> "fk0"
      [] c = "fk2"    -> "fk1"
      [] c = "ballFK" -> "fk2"
      [] c = "end"    -> "pinWorld"
      [] c = "foot"   -> "pinWorld"
      [] c = "heel"   -> "foot"
      [] c = "toeTip" -> "heel"
      [] c = "ball"   -> "toeTip"
      [] OTHER        -> "aimZero"

\* the world transform of a node under the local transforms l.  The zero of
\* the aim control is point-constrained halfway between the world pin and
\* the control that moves the IK handle
RECURSIVE world(_, _)
world(l, c) ==
    CASE c \in {"pinBlend", "pinWorld"} -> 0
      [] c = "aimZero" -> world(l, endIK) \div 2
      [] OTHER -> l[c] + world(l, parentOf(c))

\* the pose the IK solvers give joint i of the chain: it depends on the IK
\* controls only, this function stands for the solvers
ikSolve(l, i) ==
    CASE i = 0 -> 2 * world(l, "aim")
      [] i = 1 -> 2 * world(l, "aim") + world(l, endIK)
      [] OTHER -> world(l, endIK)

fkOf(i) == CASE i = 0 -> "fk0" [] i = 1 -> "fk1" [] OTHER -> "fk2"

\* the world transform of joint i: the handles' ikBlend is the FKIK attribute,
\* at 0 the joint follows its FK control, at 1 the solvers
joint(l, i) == IF fkik = 0 THEN world(l, fkOf(i)) ELSE ikSolve(l, i)

getAimVectorNoMid(start, midJ, endJ) == endJ - start

\* mpRig.getAimVector on a bent chain, along the one axis of the model
getAimVector(start, midJ, endJ) == midJ + (endJ - start)

\* len(cmds.listConnections(ctrl+'.snapParents')): addFKChain gives every FK
\* control its joint, addFKIKChain the end control a null and the aim control
\* the first three FK controls, LegFKIK.build the ball FK control, the foot,
\* the ball and the toe tip a null each; the heel has no snapParents
snapParentCount(c) ==
    CASE c = "aim"  -> 3
      [] c = "heel" -> 0
      [] OTHER      -> 1

\* what the gathering loops put in `results` for a control: the world
\* transform of its one snap parent, the aim position from its three snap
\* parents, or None for a control without snapParents (the heel)
gather(c) ==
    CASE c = "fk0"    -> [has |-> TRUE, m |-> joint(loc, 0)]
      [] c = "fk1"    -> [has |-> TRUE, m |-> joint(loc, 1)]
      [] c = "fk2"    -> [has |-> TRUE, m |-> joint(loc, 2)]
      [] c = "ballFK" -> [has |-> TRUE, m |-> world(loc, "ball")]
      [] c = "end"    -> [has |-> TRUE, m |-> world(loc, "fk2")]
      [] c = "foot"   -> [has |-> TRUE, m |-> world(loc, "fk2")]
      [] c = "ball"   -> [has |-> TRUE, m |-> world(loc, "ballFK")]
      [] c = "toeTip" -> [has |-> TRUE, m |-> world(loc, "ballFK")]
      [] c = "aim"    -> [has |-> TRUE,
                          m |-> getAimVector(world(loc, "fk0"), world(loc, "fk1"),
                                             world(loc, "fk2"))]
      [] OTHER        -> [has |-> FALSE, m |-> 0]

NoResults == [c \in AllCtrls |-> [has |-> FALSE, m |-> 0]]

\* results.iteritems(): the order of a Python 2 dict is that of the hashes of
\* its keys, the same in every call but unrelated to the hierarchy; the model
\* takes the two extremes
iteritems(dir) ==
    LET down == IF dir = "FKIK" THEN <<"fk0", "fk1", "fk2", "ballFK">>
                ELSE <<"end", "foot", "heel", "toeTip", "ball", "aim">>
        up == [k \in 1..Len(down) |-> down[Len(down) + 1 - k]]
        InSet(c) == c \in CtrlSet(dir)
    IN SelectSeq(IF dictOrder = "parentFirst" THEN down ELSE up, InSet)

resetCtrlKeep(l, c) == l

\* mpRig.resetCtrl: scale 1, rotate 0, translate 0 on the channels that
\* take a value (the heel control has none locked)
resetCtrl(l, c) == [l EXCEPT ![c] = 0]

aimNeverFails(dir) == FALSE

\* the second gathering loop of snapIKFK calls getAimVector on the three snap
\* sources of the aim control, which raises on a chain that is not bent:
\* ZeroDivisionError from normalize() of the zero vector when the cross
\* product is exactly zero, RuntimeError from the check of the dot otherwise
AimErrors == {"RuntimeError", "ZeroDivisionError"}
aimFails(dir) == dir = "IKFK" /\ straight

passesThree(dir) == IF dir = "IKFK" THEN 3 ELSE 1

\* snapIKFK applies the results in `for i in range(4)`, snapFKIK once
passes(dir) == IF dir = "IKFK" THEN 4 ELSE 1

blendAfterSwapped(dir) == IF dir = "IKFK" THEN 0 ELSE 1

\* the value the tool leaves on the FKIK attribute
blendAfter(dir) == IF dir = "IKFK" THEN 1 ELSE 0

SnapInit ==
    /\ topo \in {"chain", "leg"}
    /\ dictOrder \in {"parentFirst", "childFirst"}
    /\ loc \in [AllCtrls -> {0, 2}]
    /\ \A c \in AllCtrls \ (CtrlSetFK \cup {endIK, "ball", "heel"}) : loc[c] = 0
    /\ topo = "chain" => (loc["ball"] = 0 /\ loc["heel"] = 0)
    /\ fkik \in {0, 1}
    /\ snapPc = "idle"
    /\ snapDir = "none"
    /\ results = NoResults
    /\ pass = 0
    /\ pos = 0
    /\ applied = 0
    /\ snaps = << >>
    /\ straight \in BOOLEAN
    /\ resetCalls = {}
    /\ snapErr = "none"

\* the start of snapIKFK or snapFKIK: both gathering loops, which only read.
\* When getAimVector raises in the second loop of snapIKFK the call ends there
snapGather(dir) ==
    /\ snapPc \in {"idle", "raised"}
    /\ Len(snaps) < MaxSnaps
    /\ snapDir' = dir
    /\ pass' = 1
    /\ pos' = 1
    /\ applied' = 0
    /\ resetCalls' = {}
    /\ IF aimFails(dir)
          THEN /\ snapPc' = "raised"
               /\ snapErr' \in AimErrors
               /\ results' = NoResults
          ELSE /\ snapPc' = "apply"
               /\ snapErr' = "none"
               /\ results' = [c \in AllCtrls |-> IF c \in CtrlSet(dir) THEN gather(c)
                                                 ELSE [has |-> FALSE, m |-> 0]]
    /\ UNCHANGED <<topo, dictOrder, loc, fkik, snaps, straight>>
    /\ UNCHANGED nonSnapVars

\* one turn of the applying loop: resetCtrl on a control whose value is None,
\* cmds.xform(ctrl, ws=True, m=value) on the others
snapApply ==
    /\ snapPc = "apply"
    /\ LET c == iteritems(snapDir)[pos]
           atParent == world([loc EXCEPT ![c] = 0], c)
           last == pos = Len(iteritems(snapDir))
       IN /\ loc' = IF results[c].has
                       THEN [loc EXCEPT ![c] = results[c].m - atParent]
                       ELSE resetCtrl(loc, c)
          /\ resetCalls' = IF results[c].has THEN resetCalls ELSE resetCalls \cup {c}
          /\ pos' = IF last THEN 1 ELSE pos + 1
          /\ pass' = IF last THEN pass + 1 ELSE pass
          /\ snapPc' = IF last /\ pass = passes(snapDir) THEN "setAttr" ELSE "apply"
    /\ applied' = applied + 1
    /\ UNCHANGED <<topo, dictOrder, fkik, snapDir, results, snaps, straight, snapErr>>
    /\ UNCHANGED nonSnapVars

\* the last statement of both tools: cmds.setAttr(limbNode+'.FKIK', ...).
\* snapFKIK has put the FK controls on the pose of the IK solvers, which is
\* bent or fully extended
snapSetAttr ==
    /\ snapPc = "setAttr"
    /\ fkik' = blendAfter(snapDir)
    /\ snaps' = Append(snaps, [dir |-> snapDir, loc |-> loc])
    /\ snapPc' = "idle"
    /\ straight' \in (IF snapDir = "FKIK" THEN BOOLEAN ELSE {straight})
    /\ UNCHANGED <<topo, dictOrder, loc, snapDir, results, pass, pos, applied,
                   resetCalls, snapErr>>
    /\ UNCHANGED nonSnapVars

NextSnap ==
    \/ \E dir \in {"IKFK", "FKIK"} : snapGather(dir)
    \/ snapApply
    \/ snapSetAttr

\* C5: the same tool called twice in a row leaves every control of its set
\* with the same transform after the second call as after the first
C5_SnapTwice ==
    \A k \in 1..Len(snaps) - 1 :
        snaps[k].dir = snaps[k + 1].dir =>
            \A c \in CtrlSet(snaps[k].dir) :
                /\ snaps[k].loc[c] = snaps[k + 1].loc[c]
                /\ world(snaps[k].loc, c) = world(snaps[k + 1].loc, c)

\* C6: snapIKFK leaves the FKIK attribute at 1 and snapFKIK at 0; the
\* attribute is written by the last step of the call only, when every pass
\* over the controls has been applied
C6_BlendWrittenLast ==
    [][ /\ snapPc # "setAttr" => fkik' = fkik
        /\ snapPc = "setAttr" =>
              /\ applied = Cardinality(CtrlSet(snapDir))
                             * (IF snapDir = "IKFK" THEN 4 ELSE 1)
              /\ loc' = loc
              /\ fkik' = (IF snapDir = "IKFK" THEN 1 ELSE 0)
              /\ snapPc' = "idle" ]_vars

C6_Witness ==
    /\ Len(snaps) = 2
    /\ snaps[1].dir = "IKFK"
    /\ snaps[2].dir = "FKIK"
    /\ fkik = 0
    /\ topo = "leg"
    /\ snapPc = "idle"

\* C16: snapIKFK computes the targets of all its controls before it moves
\* any of them: the world transform of the snap source of every
\* single-source control and the aim position from the three snap sources of
\* the aim control, all read from the state the call started in; while the
\* results are applied they are not computed again, and the FK controls the
\* aim position was computed from are not moved
C16_TargetsBeforeMoves ==
    [][ /\ (snapPc = "idle" /\ snapPc' = "apply" /\ snapDir' = "IKFK") =>
              /\ loc' = loc
              /\ applied' = 0
              /\ results'["aim"] =
                    [has |-> TRUE,
                     m |-> world(loc, "fk1") + (world(loc, "fk2") - world(loc, "fk0"))]
              /\ results'[endIK] = [has |-> TRUE, m |-> world(loc, "fk2")]
        /\ (snapPc = "apply" /\ snapDir = "IKFK") =>
              /\ results' = results
              /\ \A c \in CtrlSetFK : loc'[c] = loc[c] ]_vars

C16_Witness ==
    /\ snapPc = "apply"
    /\ snapDir = "IKFK"
    /\ dictOrder = "childFirst"
    /\ applied = 1
    /\ results["aim"].m # 0
    /\ world(loc, "aim") = results["aim"].m
    /\ world(loc, endIK) # results[endIK].m

\* C16 as first stated: when an aim position has been computed, every
\* single-source snap of the call has already been applied
C16_SimpleAppliedBeforeAim ==
    (snapPc = "apply" /\ snapDir = "IKFK" /\ results["aim"].has) =>
        applied >= Cardinality({c \in CtrlSetIK : snapParentCount(c) = 1})

\* C17: snapIKFK applies its results in exactly four passes and goes on to
\* its last statement; then every control of the IK set that has a snap
\* source is at its computed target, in either order of the dict
C17_FourPassesReach ==
    (snapPc = "setAttr" /\ snapDir = "IKFK") =>
        /\ applied = 4 * Cardinality(CtrlSetIK)
        /\ \A c \in CtrlSetIK :
              snapParentCount(c) >= 1 => world(loc, c) = results[c].m

C17_Witness ==
    /\ snapPc = "setAttr"
    /\ snapDir = "IKFK"
    /\ topo = "leg"
    /\ dictOrder = "childFirst"
    /\ results["foot"].m # 0
    /\ results["ball"].m # results["foot"].m
    /\ world(loc, "ball") = results["ball"].m

\* C24: after snapIKFK every control of the IK set without a snap source has
\* been reset and is at identity, and resetCtrl was run on no control that
\* has a snap source
C24_ResetIffNoSnapSource ==
    (snapPc = "setAttr" /\ snapDir = "IKFK") =>
        \A c \in CtrlSetIK :
            /\ snapParentCount(c) = 0 => (c \in resetCalls /\ loc[c] = 0)
            /\ snapParentCount(c) >= 1 => c \notin resetCalls

C24_Witness ==
    /\ snapPc = "setAttr"
    /\ snapDir = "IKFK"
    /\ topo = "leg"
    /\ Len(snaps) = 1
    /\ snaps[1].dir = "FKIK"
    /\ snaps[1].loc["heel"] # 0
    /\ resetCalls = {"heel"}
    /\ loc["heel"] = 0
    /\ world(loc, "foot") # 0

\* C25: when the aim computation fails in snapIKFK the call ends before it
\* has written anything: every control and the FKIK attribute are as they
\* were before the call
C25_AimFailureWritesNothing ==
    [][ (snapPc \in {"idle", "raised"} /\ straight /\ snapDir' = "IKFK") =>
            /\ snapPc' = "raised"
            /\ snapErr' \in AimErrors
            /\ loc' = loc
            /\ fkik' = fkik
            /\ applied' = 0 ]_vars

C25_Witness ==
    /\ snapPc = "raised"
    /\ snapDir = "IKFK"
    /\ straight
    /\ Len(snaps) = 1
    /\ snaps[1].dir = "FKIK"
    /\ snaps[1].loc = loc
    /\ fkik = 0
    /\ loc["fk1"] # 0

\* C18: after the single pass of snapFKIK every FK control that has one snap
\* source is where that source was when the call started
C18_FKAtSource ==
    (snapPc = "setAttr" /\ snapDir = "FKIK") =>
        \A c \in CtrlSetFK :
            snapParentCount(c) = 1 => world(loc, c) = results[c].m

(* ============ Limb.addCtrl / deleteCtrl / setStartEndCtrls ============= *)
\* the controls are named by the order in which addCtrl makes them
RegIds == 1..MaxCtrls
RegJoints == {None, Root, Joint1}

InSeq(x, seq) == \E k \in 1..Len(seq) : seq[k] = x

\* the controls whose zero is under control c, directly or through others:
\* cmds.delete(c) takes them out of the scene with c
RECURSIVE under(_, _)
under(d, c) ==
    /\ d \in RegIds
    /\ regParent[d] \in RegIds
    /\ (regParent[d] = c \/ under(regParent[d], c))

Descendants(c) == {d \in RegIds : d \in regScene /\ under(d, c)}

\* self.ctrls.append(control)
append(seq, c) == Append(seq, c)

\* self.ctrls.remove(ctrl): the first item equal to ctrl leaves the list
remove(seq, c) ==
    LET k == CHOOSE i \in 1..Len(seq) : seq[i] = c /\ \A j \in 1..i - 1 : seq[j] # c
    IN SubSeq(seq, 1, k - 1) \o SubSeq(seq, k + 1, Len(seq))

RegInit ==
    /\ regPc = "build"
    /\ regCtrls = << >>
    /\ regMade = << >>
    /\ regDeleted = {}
    /\ regScene = {}
    /\ regZeros = {}
    /\ regParent = [c \in RegIds |-> None]
    /\ regDrives = [c \in RegIds |-> None]
    /\ regEndJoint \in RegJoints
    /\ regStart = None
    /\ regEnd = None
    /\ regSet = [start |-> None, end |-> None]
    /\ regErr = "none"

\* Limb.addCtrl(name, parent=parent, xform=...) in build(), and the
\* constraint build() puts from the new control to joint j, if any
regAddCtrl(parent, j) ==
    /\ regPc = "build"
    /\ Len(regMade) < MaxCtrls
    /\ parent = None \/ parent \in regScene
    /\ LET control == Len(regMade) + 1
       IN /\ regMade' = Append(regMade, control)
          /\ regCtrls' = append(regCtrls, control)
          /\ regScene' = regScene \cup {control}
          /\ regZeros' = regZeros \cup {control}
          /\ regParent' = [regParent EXCEPT ![control] = addCtrlParent(parent)]
          /\ regDrives' = [regDrives EXCEPT ![control] = j]
    /\ UNCHANGED <<regPc, regDeleted, regEndJoint, regStart, regEnd, regSet, regErr>>
    /\ UNCHANGED nonRegVars

\* Limb.deleteCtrl(ctrl) on a control of limb.ctrls.  listRelatives raises
\* ValueError for a node that is not in the scene
deleteCtrl(c) ==
    /\ regPc = "build"
    /\ InSeq(c, regCtrls)
    /\ IF c \notin regScene
          THEN /\ regPc' = "raised"
               /\ regErr' = "ValueError"
               /\ UNCHANGED <<regCtrls, regDeleted, regScene, regZeros>>
          ELSE /\ regScene' = regScene \ ({c} \cup Descendants(c))
               /\ regZeros' = regZeros \ ({c} \cup Descendants(c))
               /\ regCtrls' = remove(regCtrls, c)
               /\ regDeleted' = regDeleted \cup {c}
               /\ UNCHANGED <<regPc, regErr>>
    /\ UNCHANGED <<regMade, regParent, regDrives, regEndJoint, regStart, regEnd, regSet>>
    /\ UNCHANGED nonRegVars

\* the last statements of a build() that sets self.startCtrl and/or
\* self.endCtrl itself, to controls of the limb
regExplicit(sc, ec) ==
    /\ regPc = "build"
    /\ sc # None \/ ec # None
    /\ sc # None => (InSeq(sc, regCtrls) /\ sc \in regScene)
    /\ ec # None => (InSeq(ec, regCtrls) /\ ec \in regScene)
    /\ regPc' = "set"
    /\ regStart' = sc
    /\ regEnd' = ec
    /\ regSet' = [start |-> sc, end |-> ec]
    /\ UNCHANGED <<regCtrls, regMade, regDeleted, regScene, regZeros, regParent,
                   regDrives, regEndJoint, regErr>>
    /\ UNCHANGED nonRegVars

lastDriver(seq, j) ==
    IF j # None /\ \E k \in 1..Len(seq) : regDrives[seq[k]] = j
    THEN seq[CHOOSE k \in 1..Len(seq) :
                /\ regDrives[seq[k]] = j
                /\ \A i \in k + 1..Len(seq) : regDrives[seq[i]] # j]
    ELSE None

\* the loop of setStartEndCtrls over seq: the first control for which
\* getJointFromCtrl gives joint j, None when there is none
firstDriver(seq, j) ==
    IF j # None /\ \E k \in 1..Len(seq) : regDrives[seq[k]] = j
    THEN seq[CHOOSE k \in 1..Len(seq) :
                /\ regDrives[seq[k]] = j
                /\ \A i \in 1..k - 1 : regDrives[seq[i]] # j]
    ELSE None

\* the controls the loop gets to: getJointFromCtrl raises ValueError
\* (listConnections) on the first control that is not in the scene
reached(seq) ==
    IF \A k \in 1..Len(seq) : seq[k] \in regScene THEN seq
    ELSE SubSeq(seq, 1, (CHOOSE k \in 1..Len(seq) :
                            /\ seq[k] \notin regScene
                            /\ \A i \in 1..k - 1 : seq[i] \in regScene) - 1)

\* Limb.end: setStartEndCtrls (the other statements of end() touch neither
\* the controls nor these attributes)
regEndLimb ==
    /\ regPc \in {"build", "set"}
    /\ IF regStart # None /\ regEnd # None
          THEN /\ regPc' = "ended"
               /\ UNCHANGED <<regStart, regEnd, regErr>>
          ELSE LET seq == reached(regCtrls)
                   s == IF regStart # None THEN regStart ELSE firstDriver(seq, Root)
                   e == IF regEnd # None THEN regEnd ELSE firstDriver(seq, regEndJoint)
               IN IF Len(seq) < Len(regCtrls)
                  THEN /\ regPc' = "raised"
                       /\ regErr' = "ValueError"
                       /\ regStart' = s
                       /\ regEnd' = e
                  ELSE IF (s = None \/ e = None) /\ regCtrls = << >>
                  THEN /\ regPc' = "raised"
                       /\ regErr' = "IndexError"
                       /\ regStart' = s
                       /\ regEnd' = e
                  ELSE /\ regPc' = "ended"
                       /\ regStart' = IF s # None THEN s ELSE regCtrls[1]
                       /\ regEnd' = IF e # None THEN e ELSE regCtrls[Len(regCtrls)]
                       /\ regErr' = "none"
    /\ UNCHANGED <<regCtrls, regMade, regDeleted, regScene, regZeros, regParent,
                   regDrives, regEndJoint, regSet>>
    /\ UNCHANGED nonRegVars

NextReg ==
    \/ \E parent \in RegIds \cup {None}, j \in RegJoints : regAddCtrl(parent, j)
    \/ \E c \in RegIds : deleteCtrl(c)
    \/ \E sc \in RegIds \cup {None}, ec \in RegIds \cup {None} : regExplicit(sc, ec)
    \/ regEndLimb

\* C27: while build() adds and deletes controls, limb.ctrls holds the
\* controls addCtrl made and deleteCtrl has not removed, once each, in the
\* order they were made; a control deleteCtrl removed and its zero are out
\* of the scene; and no control that is out of the scene is in limb.ctrls
C27_RegistryMatchesScene ==
    LET kept(c) == c \notin regDeleted
    IN /\ regCtrls = SelectSeq(regMade, kept)
       /\ \A c \in regDeleted : c \notin regScene /\ c \notin regZeros
       /\ \A k \in 1..Len(regCtrls) : regCtrls[k] \in regScene

\* C28: when Limb.end has returned startCtrl and endCtrl are set and are
\* controls of limb.ctrls; a value build() set is kept; otherwise startCtrl
\* (endCtrl) is the first control made, of those in limb.ctrls, that drives
\* startJoint (endJoint), and the first (last) control of limb.ctrls when
\* none does
C28_StartEndCtrls ==
    regPc = "ended" =>
        /\ regStart # None /\ InSeq(regStart, regCtrls)
        /\ regEnd # None /\ InSeq(regEnd, regCtrls)
        /\ regSet.start # None => regStart = regSet.start
        /\ regSet.end # None => regEnd = regSet.end
        /\ regSet.start = None =>
              IF \E k \in 1..Len(regCtrls) : regDrives[regCtrls[k]] = Root
              THEN /\ regDrives[regStart] = Root
                   /\ \A k \in 1..Len(regCtrls) :
                         regDrives[regCtrls[k]] = Root => regStart <= regCtrls[k]
              ELSE regStart = regCtrls[1]
        /\ regSet.end = None =>
              IF regEndJoint # None
                 /\ \E k \in 1..Len(regCtrls) : regDrives[regCtrls[k]] = regEndJoint
              THEN /\ regDrives[regEnd] = regEndJoint
                   /\ \A k \in 1..Len(regCtrls) :
                         regDrives[regCtrls[k]] = regEndJoint => regEnd <= regCtrls[k]
              ELSE regEnd = regCtrls[Len(regCtrls)]

C28_Witness ==
    /\ regPc = "ended"
    /\ Len(regCtrls) = 2
    /\ regSet = [start |-> 2, end |-> None]
    /\ regStart = 2
    /\ regEndJoint = Joint1
    /\ regDrives[1] = Joint1
    /\ regDrives[2] = Joint1
    /\ regEnd = 1

(* ========================== mpRig.getAimVector ========================= *)
\* rigmath.Vector over whole numbers
sub(a, b) == <<a[1] - b[1], a[2] - b[2], a[3] - b[3]>>
dot(a, b) == a[1] * b[1] + a[2] * b[2] + a[3] * b[3]
sqLength(a) == dot(a, a)
scaleV(a, k) == <<a[1] * k, a[2] * k, a[3] * k>>

\* Vector.cross
cross(a, b) ==
    <<a[2] * b[3] - a[3] * b[2], a[3] * b[1] - a[1] * b[3], a[1] * b[2] - a[2] * b[1]>>

\* the test `abs(chainV.dot(upperV)) > 0.998` on the normalized vectors.
\* DotLimit / DotScale is 0.998.  With d the dot of the vectors as given and
\* a, b their squared lengths the test is d*d * DotScale^2 > DotLimit^2 * a*b,
\* which is d*d * (DotScale^2 - DotLimit^2) > DotLimit^2 * (a*b - d*d); the
\* division keeps the numbers inside 32-bit integers
DotLimit == 499
DotScale == 500
hyperExtended(chainV, upperV) ==
    LET d == dot(chainV, upperV)
        ab == sqLength(chainV) * sqLength(upperV)
    IN /\ d # 0
       /\ ab - d * d <= (d * d * (DotScale * DotScale - DotLimit * DotLimit) - 1)
                            \div (DotLimit * DotLimit)

elbowSwapped(chainNormal, chainV) == cross(chainV, chainNormal)

\* elbowV = chainNormal.cross(chainV)
elbow(chainNormal, chainV) == cross(chainNormal, chainV)

NoAim == [dir |-> <<0, 0, 0>>, sqLength4 |-> 0]

\* getAimVector with distance=0.5.  normalize() divides by the length, so
\* a zero vector gives ZeroDivisionError: chainV (start = end), upperV
\* (start = mid) and elbowV, which is zero when the three points are in
\* line.  In floating point the cross product of two parallel unit vectors
\* may also come out as a tiny vector that is not zero; then elbowV is
\* normalized and the test of the dot raises RuntimeError.  The aim point
\* returned is mid + dir * (a positive number): dir is elbowV before it is
\* normalized, and sqLength4 is four times the squared distance from mid
getAimVector3(start, midP, endP) ==
    LET chainV == sub(endP, start)
        upperV == sub(midP, start)
        chainNormal == cross(chainV, upperV)
        elbowV == elbow(chainNormal, chainV)
    IN IF sqLength(chainV) = 0 \/ sqLength(upperV) = 0
       THEN {[err |-> "ZeroDivisionError", aim |-> NoAim]}
       ELSE IF sqLength(elbowV) = 0
       THEN {[err |-> "ZeroDivisionError", aim |-> NoAim],
             [err |-> "RuntimeError", aim |-> NoAim]}
       ELSE IF hyperExtended(chainV, upperV)
       THEN {[err |-> "RuntimeError", aim |-> NoAim]}
       ELSE {[err |-> "none",
              aim |-> [dir |-> elbowV, sqLength4 |-> sqLength(chainV)]]}

AimPoints == {<<x, y, z>> : x \in (0..MaxCoord) \cup {Far}, y \in -1..1, z \in 0..1}

AimInit ==
    /\ aimPc = "call"
    /\ aimStart \in {<<0, 0, 0>>, <<1, 0, 1>>}
    /\ aimMid \in AimPoints
    /\ aimEnd \in AimPoints
    /\ aimOut = NoAim
    /\ aimErr = "none"

aimCall ==
    /\ aimPc = "call"
    /\ \E r \in getAimVector3(aimStart, aimMid, aimEnd) :
          /\ aimErr' = r.err
          /\ aimOut' = r.aim
          /\ aimPc' = IF r.err = "none" THEN "returned" ELSE "raised"
    /\ UNCHANGED <<aimStart, aimMid, aimEnd>>
    /\ UNCHANGED nonAimVars

NextAim == aimCall

\* the points are in one line (two of them may be the same point)
collinear(a, b, c) ==
    LET u == sub(b, a)
        v == sub(c, a)
    IN /\ u[1] * v[2] = u[2] * v[1]
       /\ u[1] * v[3] = u[3] * v[1]
       /\ u[2] * v[3] = u[3] * v[2]

\* the part of mid - start that is perpendicular to end - start, times the
\* squared length of end - start
perpendicular(a, b, c) ==
    LET u == sub(b, a)
        v == sub(c, a)
    IN sub(scaleV(u, sqLength(v)), scaleV(v, dot(u, v)))

\* d is a positive multiple of p
positiveMultiple(d, p) ==
    /\ d[1] * p[2] = d[2] * p[1]
    /\ d[1] * p[3] = d[3] * p[1]
    /\ d[2] * p[3] = d[3] * p[2]
    /\ d[1] * p[1] + d[2] * p[2] + d[3] * p[3] > 0

\* C29 as first stated: getAimVector fails exactly on the triples that are
\* in one line, and on every other triple returns mid plus a positive
\* multiple of the part of mid - start perpendicular to end - start
C29_FailsIffCollinear ==
    aimPc # "call" =>
        IF collinear(aimStart, aimMid, aimEnd)
        THEN aimPc = "raised" /\ aimOut = NoAim
        ELSE /\ aimPc = "returned"
             /\ positiveMultiple(aimOut.dir, perpendicular(aimStart, aimMid, aimEnd))

\* C29: getAimVector fails, and returns no aim point, on every triple whose
\* directions start->end and start->mid have a dot above 0.998 in size:
\* every triple in one line and every triple within about 3.6 degrees of one;
\* on every other triple it returns mid plus a positive multiple of the part
\* of mid - start perpendicular to end - start, at half the distance from
\* start to end
C29_FailsIffNearlyExtended ==
    aimPc # "call" =>
        LET u == sub(aimMid, aimStart)
            v == sub(aimEnd, aimStart)
            n == sqLength(<<u[2] * v[3] - u[3] * v[2], u[3] * v[1] - u[1] * v[3],
                            u[1] * v[2] - u[2] * v[1]>>)
            \* sin^2 < 1 - 0.998^2 = 0.003996, with n = sin^2 * |u|^2 * |v|^2
            near == \/ collinear(aimStart, aimMid, aimEnd)
                    \/ (n < 1000 /\ 250000 * n < 999 * dot(u, u) * dot(v, v))
        IN IF near
           THEN aimPc = "raised" /\ aimErr # "none" /\ aimOut = NoAim
           ELSE /\ aimPc = "returned"
                /\ aimErr = "none"
                /\ positiveMultiple(aimOut.dir, perpendicular(aimStart, aimMid, aimEnd))
                /\ aimOut.sqLength4 = dot(v, v)

C29_Witness ==
    /\ aimPc = "returned"
    /\ aimStart = <<0, 0, 0>>
    /\ aimMid = <<1, 1, 0>>
    /\ aimEnd = <<2, 0, 0>>
    /\ aimOut.dir[1] = 0
    /\ aimOut.dir[2] > 0
    /\ aimOut.sqLength4 = 4

(* ============================== lib/name.py ============================ *)
\* a string is the sequence of its tokens; '' is the empty sequence
Empty == << >>
SEP == <<"_">>
LEFT == <<"L">>
RIGHT == <<"R">>
MID == <<"M">>
LOC == MID
PART == <<"Main">>
DESC == <<"01">>
LIMBNAME == <<"LIMB">>
LIMBSHAPE == <<"Attrs">>
NOXFORM == <<"NoXform">>
PINPARENT == <<"pinParent">>

\* the limb objects of the script, and the values it gives name.part and
\* name.loc; the descriptors build() sets before it makes a node
NameLimbs == 1..MaxNameLimbs
Parts == {<<"Arm">>, Empty}
Locs == {LEFT, RIGHT, <<"C">>}
Descs == {PINPARENT, <<"01", "FKCTRL">>}

\* Name.__init__ without arguments
NewName == [sep |-> SEP, loc |-> LOC, part |-> PART, desc |-> DESC]

\* Name.parse on another Name object: the four fields are copied
parse(obj) == [sep |-> obj.sep, loc |-> obj.loc, part |-> obj.part, desc |-> obj.desc]

\* self.sep.join([self.part,self.loc,self.desc])
join(sep, list) == list[1] \o sep \o list[2] \o sep \o list[3]

getUnchecked(n, existing, noCheck) ==
    IF n.part = Empty \/ n.loc = Empty \/ n.desc = Empty
    THEN [err |-> "RuntimeError", str |-> Empty]
    ELSE [err |-> "none", str |-> join(n.sep, <<n.part, n.loc, n.desc>>)]

\* Name.get: the assembled string, or the exception it raises; `existing`
\* is what cmds.objExists answers from
get(n, existing, noCheck) ==
    IF n.part = Empty \/ n.loc = Empty \/ n.desc = Empty
    THEN [err |-> "RuntimeError", str |-> Empty]
    ELSE LET strName == join(n.sep, <<n.part, n.loc, n.desc>>)
         IN IF strName \in existing /\ noCheck = FALSE
            THEN [err |-> "RuntimeError", str |-> strName]
            ELSE [err |-> "none", str |-> strName]

mirrorOneWay(n) == IF n.loc = LEFT THEN [n EXCEPT !.loc = RIGHT] ELSE n

\* Name.mirror
mirror(n) ==
    IF n.loc = LEFT THEN [n EXCEPT !.loc = RIGHT]
    ELSE IF n.loc = RIGHT THEN [n EXCEPT !.loc = LEFT]
    ELSE n

\* value.replace(old, new) for tokens of three, from position i on
RECURSIVE replace(_, _, _, _)
replace(s, i, old, new) ==
    IF i + 2 > Len(s) THEN s
    ELSE IF SubSeq(s, i, i + 2) = old
         THEN replace(SubSeq(s, 1, i - 1) \o new \o SubSeq(s, i + 3, Len(s)),
                      i + 3, old, new)
         ELSE replace(s, i + 1, old, new)

\* `leftToken in value`
contains(s, tok) == \E i \in 1..Len(s) - 2 : SubSeq(s, i, i + 2) = tok

\* what Limb.mirror does to a string attribute
mirrorString(value) ==
    LET leftToken == SEP \o LEFT \o SEP
        rightToken == SEP \o RIGHT \o SEP
    IN IF contains(value, leftToken) THEN replace(value, 1, leftToken, rightToken)
       ELSE IF contains(value, rightToken) THEN replace(value, 1, rightToken, leftToken)
       ELSE value

\* FKOffset.__init__: self.translate = True
translateDefault == TRUE

\* type(value) as Python prints it, and the test
\* `type(value) in ('int','float','double','long')` of Limb.mirror: a type
\* object is compared with strings, and is equal to none of them
typeOf(value) == <<"type", IF value \in BOOLEAN THEN "bool" ELSE "int">>
isNumber(value) ==
    typeOf(value) \in {<<"str", "int">>, <<"str", "float">>, <<"str", "double">>,
                       <<"str", "long">>}

NameInit ==
    /\ names = [l \in NameLimbs |-> NewName]
    /\ limbNodeOf = [l \in NameLimbs |-> Empty]
    /\ nodes = {}
    /\ created = << >>
    /\ nameErr = "none"
    /\ nameOp = [op |-> "new", limb |-> 1, was |-> LOC, str |-> Empty]
    /\ nameSteps = 0
    /\ translateOf = [l \in NameLimbs |-> translateDefault]

nameStep(op, l, str, e) ==
    /\ nameSteps < MaxNameSteps
    /\ nameSteps' = nameSteps + 1
    /\ nameOp' = [op |-> op, limb |-> l, was |-> names[l].loc, str |-> str]
    /\ nameErr' = e

\* the build script: limb.name.part = ..., limb.name.loc = ...
setName(l, part, side) ==
    /\ UNCHANGED translateOf
    /\ limbNodeOf[l] = Empty
    /\ nameStep("set", l, Empty, "none")
    /\ names' = [names EXCEPT ![l].part = part, ![l].loc = side]
    /\ UNCHANGED <<limbNodeOf, nodes, created>>
    /\ UNCHANGED nonNameVars

\* Name.mirror on the name of a limb
nameMirror(l) ==
    /\ UNCHANGED translateOf
    /\ nameStep("mirror", l, Empty, "none")
    /\ names' = [names EXCEPT ![l] = mirror(names[l])]
    /\ UNCHANGED <<limbNodeOf, nodes, created>>
    /\ UNCHANGED nonNameVars

\* k = l.mirror(): newLimb = self.__class__(), a new limb object whose Name
\* is a mirrored copy and whose string attributes are copied with the side
\* token swapped; an attribute no branch copies keeps the value __init__
\* gave it
limbMirror(l, k) ==
    /\ l # k
    /\ limbNodeOf[k] = Empty
    /\ nameStep("limbMirror", k, Empty, "none")
    /\ names' = [names EXCEPT ![k] = mirror(parse(names[l]))]
    /\ limbNodeOf' = [limbNodeOf EXCEPT ![k] = mirrorString(limbNodeOf[l])]
    /\ translateOf' = [translateOf EXCEPT ![k] =
                          IF isNumber(translateOf[l]) THEN translateOf[l]
                          ELSE translateDefault]
    /\ UNCHANGED <<nodes, created>>
    /\ UNCHANGED nonNameVars

\* the build script: limb.translate = v, before the limb is built
setTranslate(l, v) ==
    /\ limbNodeOf[l] = Empty
    /\ translateOf[l] # v
    /\ nameStep("setTranslate", l, Empty, "none")
    /\ translateOf' = [translateOf EXCEPT ![l] = v]
    /\ UNCHANGED <<names, limbNodeOf, nodes, created>>
    /\ UNCHANGED nonNameVars

\* Limb.begin: getLimbNode (the limb node and its attribute shape, unless
\* self.limbNode is set), then the NoXform transform under the limb node
limbBegin(l) ==
    /\ UNCHANGED translateOf
    /\ LET make == limbNodeOf[l] = Empty
           n1 == IF make THEN [names[l] EXCEPT !.desc = LIMBNAME] ELSE names[l]
           r1 == get(n1, nodes, FALSE)
           nodes1 == IF make THEN nodes \cup {r1.str, r1.str \o LIMBSHAPE} ELSE nodes
           created1 == IF make THEN Append(created, r1.str) ELSE created
           limbNode == IF make THEN r1.str ELSE limbNodeOf[l]
           n2 == [n1 EXCEPT !.desc = NOXFORM]
           r2 == get(n2, nodes1, FALSE)
       IN IF make /\ r1.err # "none"
          THEN /\ nameStep("begin", l, r1.str, r1.err)
               /\ names' = [names EXCEPT ![l] = n1]
               /\ UNCHANGED <<limbNodeOf, nodes, created>>
          ELSE /\ names' = [names EXCEPT ![l] = n2]
               /\ limbNodeOf' = [limbNodeOf EXCEPT ![l] = limbNode]
               /\ IF r2.err # "none" \/ limbNode \notin nodes1
                  THEN /\ nameStep("begin", l, r2.str, "RuntimeError")
                       /\ nodes' = nodes1
                       /\ created' = created1
                  ELSE /\ nameStep("begin", l, r2.str, "none")
                       /\ nodes' = nodes1 \cup {r2.str}
                       /\ created' = Append(created1, r2.str)
    /\ UNCHANGED nonNameVars

\* a node made by build(): self.name.desc = d, then
\* cmds.group(em=True, n=self.name.get(), p=self.limbNode)
createNamed(l, d) ==
    /\ UNCHANGED translateOf
    /\ limbNodeOf[l] \in nodes
    /\ LET n == [names[l] EXCEPT !.desc = d]
           r == get(n, nodes, FALSE)
       IN /\ nameStep("create", l, r.str, r.err)
          /\ names' = [names EXCEPT ![l] = n]
          /\ IF r.err # "none"
             THEN UNCHANGED <<nodes, created>>
             ELSE /\ nodes' = nodes \cup {r.str}
                  /\ created' = Append(created, r.str)
    /\ UNCHANGED limbNodeOf
    /\ UNCHANGED nonNameVars

NextName ==
    \/ \E l \in NameLimbs, part \in Parts, side \in Locs : setName(l, part, side)
    \/ \E l \in NameLimbs : nameMirror(l)
    \/ \E l, k \in NameLimbs : limbMirror(l, k)
    \/ \E l \in NameLimbs, v \in BOOLEAN : setTranslate(l, v)
    \/ \E l \in NameLimbs : limbBegin(l)
    \/ \E l \in NameLimbs, d \in Descs : createNamed(l, d)

\* C30: k = l.mirror() gives a limb whose Name is the mirrored copy of l's,
\* whose string attributes have the side token swapped and whose boolean and
\* numeric attributes (translate) have l's values; l is left as it was
C30_MirrorCopiesConfiguration ==
    [][ (nameSteps' # nameSteps /\ nameOp'.op = "limbMirror") =>
            \E l \in NameLimbs \ {nameOp'.limb} :
                LET k == nameOp'.limb
                IN /\ names'[k] = mirror(names[l])
                   /\ limbNodeOf'[k] = mirrorString(limbNodeOf[l])
                   /\ translateOf'[k] = translateOf[l]
                   /\ names'[l] = names[l]
                   /\ limbNodeOf'[l] = limbNodeOf[l]
                   /\ translateOf'[l] = translateOf[l] ]_vars

\* C13: Name.mirror changes the location only: Left becomes Right, Right
\* becomes Left, any other location stays; part, descriptor and separator
\* are kept; mirroring the result gives the Name back
C13_MirrorInvolution ==
    [][ (nameSteps' # nameSteps /\ nameOp'.op = "mirror") =>
            LET n == names[nameOp'.limb]
                n2 == names'[nameOp'.limb]
            IN /\ n2.part = n.part /\ n2.desc = n.desc /\ n2.sep = n.sep
               /\ n.loc = LEFT => n2.loc = RIGHT
               /\ n.loc = RIGHT => n2.loc = LEFT
               /\ n.loc \notin {LEFT, RIGHT} => n2 = n
               /\ mirror(n2) = n ]_vars

C13_Witness ==
    /\ nameOp.op = "mirror"
    /\ nameOp.was = RIGHT
    /\ names[nameOp.limb].loc = LEFT
    /\ names[nameOp.limb].part = <<"Arm">>

\* the limb node of some other limb with the part and location of limb k is
\* in the scene
sameNameBuilt(k) ==
    \E l \in NameLimbs \ {k} :
        /\ limbNodeOf[l] \in nodes
        /\ limbNodeOf[l] = join(names[k].sep, <<names[k].part, names[k].loc, LIMBNAME>>)

\* C14: the names of the nodes made through Name.get() are pairwise
\* different; a get() for a string that is in the scene raises and makes no
\* node; begin() of a limb raises when the limb node of another limb with
\* the same part and location exists
C14_UniqueNames ==
    /\ [](\A i, j \in 1..Len(created) : i # j => created[i] # created[j])
    /\ [][ /\ (nameSteps' # nameSteps /\ nameOp'.op = "create"
                                      /\ nameOp'.str \in nodes) =>
                 (nameErr' = "RuntimeError" /\ nodes' = nodes /\ created' = created)
           /\ (nameSteps' # nameSteps /\ nameOp'.op = "begin"
                                      /\ sameNameBuilt(nameOp'.limb)) =>
                 nameErr' = "RuntimeError" ]_vars

C14_Witness ==
    /\ nameOp.op = "begin"
    /\ nameErr = "RuntimeError"
    /\ nameOp.str = <<"Arm", "_", "L", "_", "LIMB">>
    /\ limbNodeOf[nameOp.limb] = Empty
    /\ Len(created) >= 2

(* =========================== specifications ============================ *)
RigIdle ==
    /\ rigPc = "idle"
    /\ rigNodes = 0
    /\ skeleton = FALSE
    /\ limbs = << >>
    /\ limb = [l \in LimbIds |-> NewLimb(WorldOffsetCfg)]
    /\ scene = {}
    /\ creating = -1
    /\ createPc = "idle"
    /\ cns = {}
    /\ picks = {}
    /\ err = "none"
    /\ calls = << >>

ChainIdle ==
    /\ chainPc = "idle"
    /\ builder = "none"
    /\ jointCount = 0
    /\ bent = FALSE
    /\ parentArg = None
    /\ dotsIndex = [i \in 1..MaxJoints |-> -1]
    /\ handle = FALSE
    /\ ctrlParent = [c \in ChainCtrlIds |-> None]
    /\ pickParents = {}
    /\ snapParents = {}
    /\ lockedT = {}
    /\ pointCns = {}
    /\ chainCtrls = << >>
    /\ axes = << >>
    /\ locked = [i \in 1..MaxJoints |-> {}]
    /\ mid = 0
    /\ returned = << >>
    /\ chainErr = "none"
    /\ FKIK = [exists |-> FALSE, min |-> 0, max |-> 0, value |-> 0, frac |-> 0]

PinIdle ==
    /\ pinPc = "idle"
    /\ jointRot = 0
    /\ pinRot = [pinParent |-> 0, pinWorld |-> 0]
    /\ localWorldBlend = 0
    /\ offset = 0

SnapIdle ==
    /\ topo = "none"
    /\ dictOrder = "none"
    /\ loc = [c \in AllCtrls |-> 0]
    /\ fkik = 0
    /\ snapPc = "off"
    /\ snapDir = "none"
    /\ results = NoResults
    /\ pass = 0
    /\ pos = 0
    /\ applied = 0
    /\ snaps = << >>
    /\ straight = FALSE
    /\ resetCalls = {}
    /\ snapErr = "none"

RegIdle ==
    /\ regPc = "off"
    /\ regCtrls = << >>
    /\ regMade = << >>
    /\ regDeleted = {}
    /\ regScene = {}
    /\ regZeros = {}
    /\ regParent = [c \in RegIds |-> None]
    /\ regDrives = [c \in RegIds |-> None]
    /\ regEndJoint = None
    /\ regStart = None
    /\ regEnd = None
    /\ regSet = [start |-> None, end |-> None]
    /\ regErr = "none"

AimIdle ==
    /\ aimPc = "off"
    /\ aimStart = <<0, 0, 0>>
    /\ aimMid = <<0, 0, 0>>
    /\ aimEnd = <<0, 0, 0>>
    /\ aimOut = NoAim
    /\ aimErr = "none"

\* a rig build session
NameIdle ==
    /\ names = [l \in NameLimbs |-> NewName]
    /\ limbNodeOf = [l \in NameLimbs |-> Empty]
    /\ nodes = {}
    /\ created = << >>
    /\ nameErr = "none"
    /\ nameOp = [op |-> "idle", limb |-> 1, was |-> LOC, str |-> Empty]
    /\ nameSteps = 0
    /\ translateOf = [l \in NameLimbs |-> translateDefault]

Init == RigInit /\ ChainIdle /\ PinIdle /\ SnapIdle /\ NameIdle /\ RegIdle /\ AimIdle
Spec == Init /\ [][Next]_vars

\* a call of addFKIKChain
InitChain == ChainInit /\ RigIdle /\ PinIdle /\ SnapIdle /\ NameIdle /\ RegIdle /\ AimIdle
SpecChain == InitChain /\ [][NextChain]_vars

\* the life of a pin blend
InitPin == PinInit /\ RigIdle /\ ChainIdle /\ SnapIdle /\ NameIdle /\ RegIdle /\ AimIdle
SpecPin == InitPin /\ [][NextPin]_vars

\* a session with the snap tools
InitSnap == SnapInit /\ RigIdle /\ ChainIdle /\ PinIdle /\ NameIdle /\ RegIdle /\ AimIdle
SpecSnap == InitSnap /\ [][NextSnap]_vars

\* a script that names its limbs and builds them
InitName == NameInit /\ RigIdle /\ ChainIdle /\ PinIdle /\ SnapIdle /\ RegIdle /\ AimIdle
SpecName == InitName /\ [][NextName]_vars

\* a build() that makes and deletes controls, then Limb.end
InitReg == RegInit /\ RigIdle /\ ChainIdle /\ PinIdle /\ SnapIdle /\ NameIdle /\ AimIdle
SpecReg == InitReg /\ [][NextReg]_vars

\* a call of getAimVector
InitAim == AimInit /\ RigIdle /\ ChainIdle /\ PinIdle /\ SnapIdle /\ NameIdle /\ RegIdle
SpecAim == InitAim /\ [][NextAim]_vars

====
